---- MODULE Spec2Model ----
(***************************************************************************)
(* A model of foreshadow's column scheduler (PreparerStep, core/base.py)   *)
(* and of its parallel execution engine (ParallelProcessor,                *)
(* parallelprocessor.py).                                                  *)
(*                                                                         *)
(* Column names are strings of the program; they are modelled as tuples of *)
(* character codes so that Python's ordering of strings (sorted) and the   *)
(* "$" marker are computed, not assumed.                                   *)
(***************************************************************************)
EXTENDS Integers, Sequences, FiniteSets, TLC

VARIABLES
    \* ---- scheduler (core/base.py) ----
    column_mapping,          \* the dict handed to parallelize_mapping, in insertion order
    final_mapping,           \* what parallelize_mapping returned (or the error it raised)
    group_transformer_list,  \* the transformer_list parallelize_smart_steps builds
    spc,                     \* "mapping": the mapping is being filled; "planned": planning ran
    \* ---- ParallelProcessor (parallelprocessor.py) ----
    transformer_list,        \* self.transformer_list: entries [name, trans, cols]
    n_jobs,                  \* self.n_jobs
    collapse_index,          \* self.collapse_index
    column_sharers,          \* the ColumnSharer objects: object id -> contents
    hashseed,                \* the interpreter's string hash seed (fixes set iteration order)
    pc,                      \* "idle", or "running" while a call's units are out
    call,                    \* the running call: [op, X]
    results,                 \* what the finished units returned, by position in transformer_list
    finished,                \* the positions of the finished units, in completion order
    result,                  \* what the last call returned: [op, X_in, ok, err, X]
    \* ---- SmartTransformer (smart/smart.py) ----
    smart,                   \* the wrapper's attributes: _transformer, should_resolve, ...
    smart_args,              \* the arguments the wrapper was constructed with
    smart_hist,              \* the calls made on the wrapper so far, and the last one
    \* ---- _slice_cols (parallelprocessor.py) ----
    sliced,                  \* the last application of _slice_cols: [X, cols, drop_level, out]
    merge,                   \* the last merge of one ColumnSharer into another
    fused,                   \* the Pipeline of a fused block: its steps and the call on it
    prep                     \* a PreparerStep: its calls and the processor it built

schedVars == <<column_mapping, final_mapping, group_transformer_list, spc>>

engVars == <<transformer_list, n_jobs, collapse_index, column_sharers, hashseed,
             pc, call, results, finished, result>>

smartVars == <<smart, smart_args, smart_hist>>

restVars == <<smartVars, sliced, merge, fused, prep>>

vars == <<schedVars, engVars, restVars>>

-----------------------------------------------------------------------------
(* Bounds of the model. *)

MaxGroups == 2      \* groups in one column mapping
MaxSteps  == 2      \* steps of one group
MaxUnits  == 2      \* entries of one transformer_list

(* Group ids (dict keys of the column mapping). *)
GroupIds == {0, 1, 2}

(* Column names "a", "b" and "c" as character codes. *)
ColA == <<97>>
ColB == <<98>>
ColC == <<99>>

(* The column lists a step of the mapping may carry. *)
SchedColLists == {<<ColA>>, <<ColB, ColA>>, <<ColC>>}

-----------------------------------------------------------------------------
(* Generic helpers on sequences. *)

Range(s) == {s[i] : i \in DOMAIN s}

-----------------------------------------------------------------------------
(* Inputs: column mappings.  A mapping is a sequence (the dict's insertion *)
(* order) of entries [group, steps]; steps is a sequence of                *)
(* [trans, cols] pairs.  The operator of group g at position s is the      *)
(* opaque object <<"op", g, s>>.                                           *)

Transformer(g, s) == <<"op", g, s>>

StepColChoices == UNION {[1..n -> SchedColLists] : n \in 1..MaxSteps}

MkSteps(g, cs) == [s \in 1..Len(cs) |-> [trans |-> Transformer(g, s - 1), cols |-> cs[s]]]

-----------------------------------------------------------------------------
(* PreparerStep.parallelize_mapping *)

grouped_pipeline == <<"str", "grouped_pipeline">>

GroupKey(g) == <<"int", g>>

(* cols_across_steps and the all(...) test of line 76. *)
cols_across_steps(list_of_steps) == [s \in 1..Len(list_of_steps) |-> list_of_steps[s].cols]

SameColsAcrossSteps(list_of_steps) ==
    \A s \in 1..Len(list_of_steps) :
        cols_across_steps(list_of_steps)[s] = cols_across_steps(list_of_steps)[1]

(* Mutant: the pipeline keeps only the group's first operator. *)
IndependentUnit_FirstOperatorOnly(e) ==
    [key   |-> GroupKey(e.group),
     name  |-> <<"group", e.group>>,
     trans |-> [kind |-> "Pipeline", steps |-> <<e.steps[1].trans>>],
     cols  |-> cols_across_steps(e.steps)[1]]

(* The unit built for a group that has the same columns at all steps       *)
(* (lines 82-88).                                                          *)
IndependentUnit(e) ==
    [key   |-> GroupKey(e.group),
     name  |-> <<"group", e.group>>,
     trans |-> [kind |-> "Pipeline",
                steps |-> [s \in 1..Len(e.steps) |-> e.steps[s].trans]],
     cols  |-> cols_across_steps(e.steps)[1]]

(* parallelized[group_number] of lines 89 and 93. *)
IsParallelized(e) == SameColsAcrossSteps(e.steps)

IndependentUnits(mapping) ==
    LET kept == SelectSeq(mapping, IsParallelized)
    IN  [i \in 1..Len(kept) |-> IndependentUnit(kept[i])]

HasGroup(mapping, g) == \E i \in 1..Len(mapping) : mapping[i].group = g

StepsOfGroup(mapping, g) ==
    (CHOOSE i \in 1..Len(mapping) : mapping[i].group = g)

(* total_steps of line 97: the number of steps of group 0. *)
total_steps(mapping) == Len(mapping[StepsOfGroup(mapping, 0)].steps)

IsNotParallelized(e) == ~IsParallelized(e)

Interdependent(mapping) == SelectSeq(mapping, IsNotParallelized)

(* Mutant: every entry is tagged with its group's columns of step 0. *)
StepTransformerList_FirstStepCols(mapping, step_number) ==
    LET groups == Interdependent(mapping)
    IN  [i \in 1..Len(groups) |->
            [name  |-> <<"group", groups[i].group, "transformer",
                         groups[i].steps[step_number + 1].trans>>,
             trans |-> groups[i].steps[step_number + 1].trans,
             cols  |-> groups[i].steps[1].cols]]

(* Mutant: every entry is tagged with the columns of the first group. *)
StepTransformerList_FirstGroupCols(mapping, step_number) ==
    LET groups == Interdependent(mapping)
    IN  [i \in 1..Len(groups) |->
            [name  |-> <<"group", groups[i].group, "transformer",
                         groups[i].steps[step_number + 1].trans>>,
             trans |-> groups[i].steps[step_number + 1].trans,
             cols  |-> groups[1].steps[step_number + 1].cols]]

(* The transformer_list of one step of the fused block (lines 101-119). *)
StepTransformerList(mapping, step_number) ==
    LET groups == Interdependent(mapping)
    IN  [i \in 1..Len(groups) |->
            [name  |-> <<"group", groups[i].group, "transformer",
                         groups[i].steps[step_number + 1].trans>>,
             trans |-> groups[i].steps[step_number + 1].trans,
             cols  |-> groups[i].steps[step_number + 1].cols]]

(* all_cols of lines 99 and 110-111. *)
all_cols(mapping, nsteps) ==
    UNION {Range(e.steps[s].cols) : e \in Range(Interdependent(mapping)), s \in 1..nsteps}

GroupedPipeline(mapping) ==
    [key   |-> grouped_pipeline,
     name  |-> grouped_pipeline,
     trans |-> [kind |-> "Pipeline",
                steps |-> [k \in 1..total_steps(mapping) |->
                              [name |-> <<"step", k - 1>>,
                               transformer_list |-> StepTransformerList(mapping, k - 1)]]],
     cols  |-> all_cols(mapping, total_steps(mapping))]

Raised(e) == [ok |-> FALSE, err |-> e, map |-> <<>>]
Returned(m) == [ok |-> TRUE, err |-> "", map |-> m]

(* Mutant: the fused block is put in front of the independent units. *)
parallelize_mapping_FusedFirst(mapping) ==
    IF Len(IndependentUnits(mapping)) < Len(mapping)
    THEN IF ~HasGroup(mapping, 0)
         THEN Raised("KeyError")
         ELSE IF \E e \in Range(Interdependent(mapping)) :
                     Len(e.steps) < total_steps(mapping)
              THEN Raised("IndexError")
              ELSE Returned(<<GroupedPipeline(mapping)>> \o IndependentUnits(mapping))
    ELSE Returned(IndependentUnits(mapping))

parallelize_mapping(mapping) ==
    IF Len(IndependentUnits(mapping)) < Len(mapping)
    THEN IF ~HasGroup(mapping, 0)
         THEN Raised("KeyError")           \* column_mapping[0], line 97
         ELSE IF \E e \in Range(Interdependent(mapping)) :
                     Len(e.steps) < total_steps(mapping)
              THEN Raised("IndexError")    \* list_of_steps[step_number], line 106
              ELSE Returned(Append(IndependentUnits(mapping), GroupedPipeline(mapping)))
    ELSE Returned(IndependentUnits(mapping))

(* PreparerStep.parallelize_smart_steps, lines 155-160: the values of the  *)
(* plan in the plan's order.                                               *)
GroupTransformerList(plan) ==
    [i \in 1..Len(plan) |-> [name |-> plan[i].name, trans |-> plan[i].trans,
                             cols |-> plan[i].cols]]

-----------------------------------------------------------------------------------------------------------------------------------------------------
(* Column names as Python compares them: strings are ordered by their      *)
(* characters' code points, a proper prefix before the longer string.      *)

ColAB == <<97, 98>>     \* "ab"

Dollar == 36            \* the code point of "$"

RECURSIVE StrLess(_, _)
StrLess(a, b) ==
    IF Len(a) = 0 THEN Len(b) > 0
    ELSE IF Len(b) = 0 THEN FALSE
    ELSE IF Head(a) # Head(b) THEN Head(a) < Head(b)
    ELSE StrLess(Tail(a), Tail(b))

(* Mutant: the leftmost column, as the docstring of lines 33-36 has it. *)
SortedFirst_Leftmost(cols) == cols[1]

(* sorted(cols)[0] of lines 610, 639 and 674. *)
SortedFirst(cols) ==
    CHOOSE c \in Range(cols) : \A d \in Range(cols) : ~StrLess(d, c)

-----------------------------------------------------------------------------
(* Tables.  A table is the sequence of its columns; a column is            *)
(* [origin, new, val]: a two-level label (origin, new), or a plain label   *)
(* new with origin = NoOrigin; val stands for the column's values.         *)

NoOrigin == <<>>

InputColumn(c) == [origin |-> NoOrigin, new |-> c, val |-> <<"in", c>>]

InputTable(names) == [i \in 1..Len(names) |-> InputColumn(names[i])]

(* list(X): the labels of the table's columns. *)
Label(col) == IF col.origin = NoOrigin THEN col.new ELSE <<col.origin, col.new>>

IsTupleLabel(col) == col.origin # NoOrigin

Labels(X) == [i \in 1..Len(X) |-> Label(X[i])]

EmptyTable == <<>>

RECURSIVE ConcatTables(_)
ConcatTables(Xs) == IF Len(Xs) = 0 THEN <<>> ELSE Head(Xs) \o ConcatTables(Tail(Xs))

(* The tables handed to the calls: the columns "c","a","b","ab"; the       *)
(* columns "c","b"; and a table with two-level labels (ab,b), (ab,ab),     *)
(* (c,c), (a,a), as a transform returns it.                                *)
TwoLevelColumn(o, c) == [origin |-> o, new |-> c, val |-> <<"in", c>>]

Tables ==
    {InputTable(<<ColC, ColA, ColB, ColAB>>),
     InputTable(<<ColC, ColB>>),
     <<TwoLevelColumn(ColAB, ColB), TwoLevelColumn(ColAB, ColAB),
       TwoLevelColumn(ColC, ColC), TwoLevelColumn(ColA, ColA)>>}

(* The column lists of the entries of a transformer_list. *)
EngColLists == {<<>>, <<ColAB>>, <<ColB, ColAB>>}

-----------------------------------------------------------------------------
(* _slice_cols (lines 524-572). *)

Sliced(X) == [ok |-> TRUE, err |-> "", X |-> X]
SliceRaised(e) == [ok |-> FALSE, err |-> e, X |-> EmptyTable]

(* c.replace("$", "") *)
WithoutDollar(c) == SelectSeq(c, LAMBDA ch : ch # Dollar)

ColumnsAtLevel(X, c, level) ==
    SelectSeq(X, LAMBDA col : IF level = "new" THEN col.new = c ELSE col.origin = c)

DropLevel(X) == [i \in 1..Len(X) |-> [X[i] EXCEPT !.origin = NoOrigin]]

(* X[cols] of a table with plain labels (line 553): the columns in the     *)
(* order of cols, a KeyError when one is not there.                        *)
PlainSlice(X, cols) ==
    IF \A i \in 1..Len(cols) : \E j \in 1..Len(X) : X[j].new = cols[i]
    THEN Sliced(ConcatTables([i \in 1..Len(cols) |->
                                SelectSeq(X, LAMBDA col : col.new = cols[i])]))
    ELSE SliceRaised("KeyError")

(* The multi-index branch (lines 549-572): a "$" name selects by the level *)
(* "new", another name by the level "origin"; X.xs raises KeyError when    *)
(* the name is not at that level.                                          *)
MultiSlice(X, cols, drop_level) ==
    LET wanted == SelectSeq(cols, LAMBDA c :
                     \/ \E j \in 1..Len(X) : X[j].origin = c
                     \/ \E j \in 1..Len(X) : X[j].new = WithoutDollar(c))
        get(c) == IF Len(c) > 0 /\ c[1] = Dollar
                  THEN ColumnsAtLevel(X, WithoutDollar(c), "new")
                  ELSE ColumnsAtLevel(X, c, "origin")
        parts == [i \in 1..Len(wanted) |-> get(wanted[i])]
    IN  IF \E i \in 1..Len(wanted) : Len(wanted[i]) = 0
        THEN SliceRaised("IndexError")        \* c[0] of an empty name
        ELSE IF \E i \in 1..Len(parts) : Len(parts[i]) = 0
        THEN SliceRaised("KeyError")
        ELSE IF Len(wanted) = 0
        THEN SliceRaised("ValueError")        \* pd.concat of no objects
        ELSE Sliced(IF drop_level THEN DropLevel(ConcatTables(parts))
                    ELSE ConcatTables(parts))

_slice_cols(X, cols, drop_level) ==
    IF Len(X) = 0 THEN Sliced(X)
    ELSE IF Len(cols) = 0 THEN Sliced(EmptyTable)
    ELSE IF IsTupleLabel(X[1]) THEN MultiSlice(X, cols, drop_level)
    ELSE PlainSlice(X, cols)

-----------------------------------------------------------------------------
(* Operators (transformers).  An operator is an external object; the model *)
(* keeps its identity, whether it is a Pipeline (has steps), the           *)
(* ColumnSharer each of its steps references, and whether it was fitted.   *)
(* Its transform keeps the names of the columns it is given.               *)

NoCS == -1      \* a step without a column_sharer attribute

(* The methods an operator may expose (hasattr, lines 227-229). *)
Methods == {"fit", "fit_transform", "transform", "inverse_transform"}

None == [id |-> 0, has_steps |-> FALSE, steps |-> <<>>, fitted |-> FALSE, methods |-> {}]

PlainOperator(i) ==
    [id |-> i, has_steps |-> FALSE, steps |-> <<>>, fitted |-> FALSE, methods |-> Methods]

PipelineOperator(i, refs) ==
    [id |-> i, has_steps |-> TRUE, steps |-> refs, fitted |-> FALSE, methods |-> Methods]

(* An object that lacks the methods in missing. *)
OperatorWithout(i, missing) ==
    [id |-> i, has_steps |-> FALSE, steps |-> <<>>, fitted |-> FALSE,
     methods |-> Methods \ missing]

(* transformer.transform(X) and transformer.inverse_transform(X). *)
OperatorOutput(trans, X, what) ==
    [i \in 1..Len(X) |-> [origin |-> NoOrigin, new |-> X[i].new,
                          val |-> <<what, trans.id, X[i].new>>]]

(* res.columns = [[colname] * len(list(res)), list(res)] (lines 616, 644, 679). *)
TagOrigin(res, colname) == [i \in 1..Len(res) |-> [res[i] EXCEPT !.origin = colname]]

UnitReturned(X, trans) == [ok |-> TRUE, err |-> "", X |-> X, trans |-> trans]
UnitRaised(e) == [ok |-> FALSE, err |-> e, X |-> EmptyTable, trans |-> None]

(* _fit_one_transformer (sklearn): transformer.fit(X, y). *)
_fit_one_transformer(trans, X) ==
    IF "fit" \notin trans.methods THEN UnitRaised("AttributeError")
    ELSE UnitReturned(EmptyTable, [trans EXCEPT !.fitted = TRUE])

(* _pandas_transform_one (lines 596-618). *)
_pandas_transform_one(trans, X, cols, collapse) ==
    IF Len(cols) = 0 THEN UnitRaised("IndexError")      \* sorted(cols)[0]
    ELSE IF "transform" \notin trans.methods THEN UnitRaised("AttributeError")
    ELSE LET res == OperatorOutput(trans, X, "out")
         IN  UnitReturned(IF ~collapse THEN TagOrigin(res, SortedFirst(cols)) ELSE res,
                          trans)

(* _pandas_fit_transform_one (lines 621-646). *)
_pandas_fit_transform_one(trans, X, cols, collapse) ==
    IF Len(cols) = 0 THEN UnitRaised("IndexError")
    ELSE IF /\ "fit_transform" \notin trans.methods      \* else fit(X).transform(X)
            /\ ~({"fit", "transform"} \subseteq trans.methods)
    THEN UnitRaised("AttributeError")
    ELSE LET res == OperatorOutput(trans, X, "out")
         IN  UnitReturned(IF ~collapse THEN TagOrigin(res, SortedFirst(cols)) ELSE res,
                          [trans EXCEPT !.fitted = TRUE])

(* _pandas_inverse_transform_one (lines 657-681), no weight. *)
_pandas_inverse_transform_one(trans, X, cols, collapse) ==
    IF Len(cols) = 0 THEN UnitRaised("IndexError")
    ELSE IF "inverse_transform" \notin trans.methods THEN UnitRaised("AttributeError")
    ELSE LET res == OperatorOutput(trans, X, "inv")
         IN  UnitReturned(IF ~collapse THEN TagOrigin(res, SortedFirst(cols)) ELSE res,
                          trans)

-----------------------------------------------------------------------------
(* ColumnSharer objects.  The object with id Canonical is the one handed   *)
(* to configure_column_sharer; the object with id i is the copy that came  *)
(* back from a worker process with the unit at position i.                 *)

Canonical == 0

Keys == {<<"intent", ColA>>, <<"intent", ColB>>}

NoneValue == <<"None", 0>>
OldValue == <<"old", 0>>
WrittenValue(i) == <<"w", i>>

(* What one unit writes during a fit: nothing, or its value under one key. *)
NoWrites == <<>>
WriteChoices == {NoWrites} \cup {<<k>> : k \in Keys}

ApplyWrites(cs, w, i) ==
    [k \in Keys |-> IF k \in Range(w) THEN WrittenValue(i) ELSE cs[k]]

(* The ColumnSharer a transformer's steps reference (all its steps that    *)
(* have one reference the same object).                                    *)
StepsWithSharer(trans) == SelectSeq(trans.steps, LAMBDA r : r # NoCS)

HasSharer(trans) == trans.has_steps /\ Len(StepsWithSharer(trans)) > 0

SharerOf(trans) == StepsWithSharer(trans)[1]

(* n_jobs other than 1 runs the units in worker processes: each unit is    *)
(* pickled, and comes back as a copy with its own ColumnSharer.            *)
MultiWorker(n) == n # 1

-----------------------------------------------------------------------------
(* ParallelProcessor: the helpers of the calls. *)

(* _iter (lines 235-249): the positions of the entries whose operator is   *)
(* not None, in the order of transformer_list.                             *)
_iter(tl) == SelectSeq([i \in 1..Len(tl) |-> i], LAMBDA i : tl[i].trans # None)

(* Mutant: the results are taken in the order the units completed. *)
CollectResults_CompletionOrder(tl, res, fin) == [k \in 1..Len(fin) |-> res[fin[k]]]

(* Parallel(...)(...) returns the units' results in the order they were    *)
(* dispatched (lines 296, 317, 418, 480).                                  *)
CollectResults(tl, res, fin) == [k \in 1..Len(_iter(tl)) |-> res[_iter(tl)[k]]]

(* Mutant: the returned operators are handed out from the last one. *)
_update_transformer_list_Reversed(tl, transformers) ==
    [p \in 1..Len(tl) |->
        IF tl[p].trans = None THEN tl[p]
        ELSE [tl[p] EXCEPT !.trans =
                 transformers[Len(transformers) + 1
                              - Len(SelectSeq(SubSeq(tl, 1, p), LAMBDA e : e.trans # None))]]]

(* _update_transformer_list (lines 199-209): each entry that is not None   *)
(* takes the next returned operator.                                       *)
_update_transformer_list(tl, transformers) ==
    [p \in 1..Len(tl) |->
        IF tl[p].trans = None THEN tl[p]
        ELSE [tl[p] EXCEPT !.trans =
                 transformers[Len(SelectSeq(SubSeq(tl, 1, p), LAMBDA e : e.trans # None))]]]

(* _validate_transformers (lines 211-233): an empty transformer_list      *)
(* cannot be unzipped into names, transformers and columns.               *)
(* The operators the loop of lines 223-233 rejects: not None, and without  *)
(* transform or without both fit and fit_transform.                        *)
Rejected(trans) ==
    /\ trans # None
    /\ \/ "transform" \notin trans.methods
       \/ {"fit", "fit_transform"} \cap trans.methods = {}

(* The operator the TypeError names: the first one rejected (0: none). *)
FirstRejected(tl) ==
    LET bad == SelectSeq(tl, LAMBDA e : Rejected(e.trans))
    IN  IF Len(bad) = 0 THEN 0 ELSE bad[1].trans.id

(* Mutant: the operators are not looked at. *)
_validate_transformers_NamesOnly(tl) == IF Len(tl) = 0 THEN "ValueError" ELSE ""

_validate_transformers(tl) ==
    IF Len(tl) = 0 THEN "ValueError"
    ELSE IF FirstRejected(tl) # 0 THEN "TypeError"
    ELSE ""

(* The iteration order of a set of labels (line 274, list(full - partial)) *)
(* is fixed by the interpreter's hash seed, not by the table.              *)
ColumnLess(a, b) ==
    IF a.origin # b.origin THEN StrLess(a.origin, b.origin) ELSE StrLess(a.new, b.new)

RECURSIVE SetOrder(_, _)
SetOrder(S, seed) ==
    IF S = {} THEN <<>>
    ELSE LET first == CHOOSE a \in S : \A b \in S \ {a} :
                         IF seed = 0 THEN ColumnLess(a, b) ELSE ColumnLess(b, a)
         IN  <<first>> \o SetOrder(S \ {first}, seed)

AllCols(tl) == ConcatTables([k \in 1..Len(_iter(tl)) |-> tl[_iter(tl)[k]].cols])

(* Mutant: the columns of the entries whose operator is None count too. *)
CoveredCols_AllEntries(tl) == ConcatTables([k \in 1..Len(tl) |-> tl[k].cols])

(* [c for _, _, cols, _ in self._iter() for c in cols] (line 268). *)
CoveredCols(tl) == AllCols(tl)

(* X[self._get_other_cols(X)] (lines 251-274, 324): the columns of X that  *)
(* no entry of _iter slices out, in the set's iteration order.             *)
_get_other_cols(X, tl, seed) ==
    LET partial == _slice_cols(X, CoveredCols(tl), FALSE)
    IN  IF ~partial.ok THEN partial
        ELSE Sliced(SetOrder(Range(X) \ Range(partial.X), seed))

(* Xo.columns = [list(Xo), list(Xo)] when Xo has plain labels              *)
(* (lines 325-328).                                                        *)
WithSameOrigin(Xo) ==
    IF Len(Xo) > 0 /\ ~IsTupleLabel(Xo[1])
    THEN [i \in 1..Len(Xo) |-> [Xo[i] EXCEPT !.origin = Xo[i].new]]
    ELSE Xo

(* Xs.columns.droplevel() (lines 341-347): drops the origin of a           *)
(* MultiIndex; on a plain Index it raises AttributeError, which is         *)
(* swallowed.                                                              *)
Collapse(Xs) ==
    IF Len(Xs) > 0 /\ \A i \in 1..Len(Xs) : IsTupleLabel(Xs[i])
    THEN DropLevel(Xs)
    ELSE Xs

(* The frames of the results, then Xo when it has columns, concatenated. *)
ConcatWithOthers(frames, Xo, collapse) ==
    LET Xs == ConcatTables(frames) \o WithSameOrigin(Xo)
    IN  IF collapse THEN Collapse(Xs) ELSE Xs

-----------------------------------------------------------------------------
(* ParallelProcessor: the state of a call. *)

StoreIds == 0..MaxUnits

Blank == [k \in Keys |-> NoneValue]

Ops == {"fit", "transform", "fit_transform", "inverse_transform"}

NoCall == [op |-> "none", X |-> EmptyTable]

NoResult == [op |-> "none", X_in |-> EmptyTable, ok |-> FALSE, err |-> "not called",
             about |-> 0, X |-> EmptyTable]

CallReturned(op, X_in, X) ==
    [op |-> op, X_in |-> X_in, ok |-> TRUE, err |-> "", about |-> 0, X |-> X]

CallRaised(op, X_in, e) ==
    [op |-> op, X_in |-> X_in, ok |-> FALSE, err |-> e, about |-> 0, X |-> EmptyTable]

(* An error whose message names the operator with the given id. *)
CallRaisedAbout(op, X_in, e, id) ==
    [op |-> op, X_in |-> X_in, ok |-> FALSE, err |-> e, about |-> id, X |-> EmptyTable]

(* What a unit's call brought back: its table, its operator, the contents  *)
(* of the ColumnSharer that operator references, and the keys it wrote.    *)
Pending == [done |-> FALSE, X |-> EmptyTable, trans |-> None, cs |-> Blank, writes |-> NoWrites]

Done(r, cs, w) == [done |-> TRUE, X |-> r.X, trans |-> r.trans, cs |-> cs, writes |-> w]

(* A worker process receives a pickled copy of the operator: the steps of  *)
(* the copy reference the copy's own ColumnSharer, kept under the id of    *)
(* the unit's position.                                                    *)
Unpickled(trans, i) ==
    [trans EXCEPT !.steps = [k \in 1..Len(trans.steps) |->
                                IF trans.steps[k] = NoCS THEN NoCS ELSE i]]

(* The function each call hands to its units (lines 297, 318, 419, 481). *)
UnitCall(op, trans, X, cols, collapse) ==
    CASE op = "fit" -> _fit_one_transformer(trans, X)
      [] op = "transform" -> _pandas_transform_one(trans, X, cols, collapse)
      [] op = "fit_transform" -> _pandas_fit_transform_one(trans, X, cols, collapse)
      [] op = "inverse_transform" -> _pandas_inverse_transform_one(trans, X, cols, collapse)

(* _get_original_column_sharer (lines 350-359): the ColumnSharer of the    *)
(* first step that has one, None when no step has one.                     *)
_get_original_column_sharer(tl) ==
    LET with == SelectSeq(tl, LAMBDA e : HasSharer(e.trans))
    IN  IF Len(with) = 0 THEN NoCS ELSE SharerOf(with[1].trans)

_update_original_column_sharer_with_another_AssignsNone(column_sharer, modified_cs) ==
    [k \in DOMAIN column_sharer \cup DOMAIN modified_cs |->
        IF k \in DOMAIN modified_cs THEN modified_cs[k] ELSE column_sharer[k]]

(* _update_original_column_sharer_with_another (lines 377-392): for every  *)
(* key of the copy, a value that is not None is assigned to the original   *)
(* under that key.                                                         *)
_update_original_column_sharer_with_another(column_sharer, modified_cs) ==
    [k \in DOMAIN column_sharer
            \cup {j \in DOMAIN modified_cs : modified_cs[j] # NoneValue} |->
        IF k \in DOMAIN modified_cs /\ modified_cs[k] # NoneValue
        THEN modified_cs[k] ELSE column_sharer[k]]

(* _update_original_column_sharer (lines 361-367): the copies are merged   *)
(* in the order of the returned operators; transformer.steps[0][1]         *)
(* .column_sharer raises AttributeError for an operator without steps or   *)
(* whose first step has no column_sharer, after the merges before it.      *)
RECURSIVE _update_original_column_sharer(_, _)
_update_original_column_sharer(column_sharer, res) ==
    IF Len(res) = 0 THEN [ok |-> TRUE, err |-> "", cs |-> column_sharer]
    ELSE IF ~Head(res).trans.has_steps
    THEN [ok |-> FALSE, err |-> "AttributeError", cs |-> column_sharer]
    ELSE IF Len(Head(res).trans.steps) = 0
    THEN [ok |-> FALSE, err |-> "IndexError", cs |-> column_sharer]
    ELSE IF Head(res).trans.steps[1] = NoCS
    THEN [ok |-> FALSE, err |-> "AttributeError", cs |-> column_sharer]
    ELSE _update_original_column_sharer(
             _update_original_column_sharer_with_another(column_sharer, Head(res).cs),
             Tail(res))

_update_transformers_with_updated_column_sharer_FirstStepOnly(transformers, column_sharer) ==
    [k \in 1..Len(transformers) |->
        [transformers[k] EXCEPT !.steps =
            [j \in 1..Len(transformers[k].steps) |->
                IF j = 1 THEN column_sharer ELSE transformers[k].steps[j]]]]

(* _update_transformers_with_updated_column_sharer (lines 369-375): every  *)
(* step of every returned operator references the original again.          *)
_update_transformers_with_updated_column_sharer(transformers, column_sharer) ==
    [k \in 1..Len(transformers) |->
        [transformers[k] EXCEPT !.steps = [j \in 1..Len(transformers[k].steps) |-> column_sharer]]]

(* The copies that transformer_list references once it holds the operators *)
(* that came back from the workers.                                        *)
InstallCopies(heap, tl, res, n) ==
    [s \in StoreIds |->
        IF MultiWorker(n) /\ s \in Range(_iter(tl)) /\ HasSharer(res[s].trans)
        THEN res[s].cs
        ELSE heap[s]]

Outcome(tl, heap, r) == [transformer_list |-> tl, column_sharers |-> heap, result |-> r]

(* The end of transform, fit_transform and inverse_transform (lines        *)
(* 323-348, 442-464, 499-521): the other columns, concatenation, collapse. *)
Concatenated(op, X, tl, heap, frames, collapse, seed) ==
    LET other == _get_other_cols(X, tl, seed)
    IN  IF ~other.ok THEN Outcome(tl, heap, CallRaised(op, X, other.err))
        ELSE Outcome(tl, heap, CallReturned(op, X, ConcatWithOthers(frames, other.X, collapse)))

(* fit (lines 276-305), after the units. *)
fit(X, tl, heap, res, n) ==
    Outcome(_update_transformer_list(tl, [k \in 1..Len(res) |-> res[k].trans]),
            InstallCopies(heap, tl, [i \in 1..Len(tl) |->
                                       IF tl[i].trans = None THEN Pending
                                       ELSE res[Len(SelectSeq(SubSeq(tl, 1, i),
                                                              LAMBDA e : e.trans # None))]], n),
            CallReturned("fit", X, EmptyTable))

(* transform (lines 307-348), after the units. *)
transform(X, tl, heap, res, collapse, seed) ==
    Concatenated("transform", X, tl, heap, [k \in 1..Len(res) |-> res[k].X], collapse, seed)

(* fit_transform (lines 394-464), after the units. *)
fit_transform(X, tl, heap, res, n, collapse, seed) ==
    LET column_sharer == _get_original_column_sharer(tl)
        update_column_sharer == (n > 1 \/ n = -1) /\ column_sharer # NoCS
        transformers == [k \in 1..Len(res) |-> res[k].trans]
        byEntry == [i \in 1..Len(tl) |->
                       IF tl[i].trans = None THEN Pending
                       ELSE res[Len(SelectSeq(SubSeq(tl, 1, i), LAMBDA e : e.trans # None))]]
        frames == [k \in 1..Len(res) |-> res[k].X]
    IN  IF Len(res) = 0
        THEN Outcome(tl, heap, CallReturned("fit_transform", X, EmptyTable))    \* X[[]]
        ELSE IF ~update_column_sharer
        THEN Concatenated("fit_transform", X,
                          _update_transformer_list(tl, transformers),
                          InstallCopies(heap, tl, byEntry, n), frames, collapse, seed)
        ELSE LET merged == _update_original_column_sharer(heap[column_sharer], res)
                 heap2 == [heap EXCEPT ![column_sharer] = merged.cs]
             IN  IF ~merged.ok
                 THEN Outcome(tl, heap2, CallRaised("fit_transform", X, merged.err))
                 ELSE Concatenated("fit_transform", X,
                          _update_transformer_list(tl,
                              _update_transformers_with_updated_column_sharer(
                                  transformers, column_sharer)),
                          heap2, frames, collapse, seed)

(* inverse_transform (lines 466-521), after the units. *)
inverse_transform(X, tl, heap, res, n, collapse, seed) ==
    LET byEntry == [i \in 1..Len(tl) |->
                       IF tl[i].trans = None THEN Pending
                       ELSE res[Len(SelectSeq(SubSeq(tl, 1, i), LAMBDA e : e.trans # None))]]
    IN  IF Len(res) = 0
        THEN Outcome(tl, heap, CallReturned("inverse_transform", X, EmptyTable))
        ELSE Concatenated("inverse_transform", X,
                          _update_transformer_list(tl, [k \in 1..Len(res) |-> res[k].trans]),
                          InstallCopies(heap, tl, byEntry, n),
                          [k \in 1..Len(res) |-> res[k].X], collapse, seed)

-----------------------------------------------------------------------------
(* ParallelProcessor: the steps of a call. *)

configVars == <<n_jobs, collapse_index, hashseed>>

(* A call starts: fit, fit_transform and inverse_transform validate the    *)
(* transformer_list first (lines 293, 409, 477); transform does not.       *)
Call(op, X) ==
    /\ pc = "idle"
    /\ IF op # "transform" /\ _validate_transformers(transformer_list) # ""
       THEN /\ pc' = "idle"
            /\ call' = NoCall
            /\ result' = IF _validate_transformers(transformer_list) = "TypeError"
                         THEN CallRaisedAbout(op, X, "TypeError",
                                              FirstRejected(transformer_list))
                         ELSE CallRaised(op, X, _validate_transformers(transformer_list))
       ELSE /\ pc' = "running"
            /\ call' = [op |-> op, X |-> X]
            /\ result' = result
    /\ results' = [i \in 1..Len(transformer_list) |-> Pending]
    /\ finished' = <<>>
    /\ UNCHANGED <<transformer_list, column_sharers, configVars, schedVars, restVars>>

(* The units that may complete next: any dispatched unit in a worker       *)
(* process, the next one of _iter when n_jobs = 1.                         *)
MayComplete(i) ==
    /\ pc = "running"
    /\ i \in Range(_iter(transformer_list))
    /\ ~results[i].done
    /\ n_jobs = 1 => \A j \in Range(_iter(transformer_list)) : j < i => results[j].done

Slice(i) == _slice_cols(call.X, transformer_list[i].cols, TRUE)

Worker(i) ==
    IF MultiWorker(n_jobs) THEN Unpickled(transformer_list[i].trans, i)
    ELSE transformer_list[i].trans

UnitOutcome(i) ==
    UnitCall(call.op, Worker(i), Slice(i).X, transformer_list[i].cols, collapse_index)

(* One unit's call returns.  A fit may write w to the operator's           *)
(* ColumnSharer: in a worker process that is the copy, with n_jobs = 1 it  *)
(* is the object itself, and the operator itself is the one fitted.        *)
UnitCompletes(i, w) ==
    /\ MayComplete(i)
    /\ Slice(i).ok
    /\ UnitOutcome(i).ok
    /\ w # NoWrites => /\ call.op \in {"fit", "fit_transform"}
                       /\ HasSharer(transformer_list[i].trans)
    /\ LET trans == transformer_list[i].trans
           cs == IF HasSharer(trans)
                 THEN ApplyWrites(column_sharers[SharerOf(trans)], w, i)
                 ELSE Blank
       IN  /\ results' = [results EXCEPT ![i] = Done(UnitOutcome(i), cs, w)]
           /\ IF MultiWorker(n_jobs)
              THEN UNCHANGED <<transformer_list, column_sharers>>
              ELSE /\ transformer_list' =
                         [transformer_list EXCEPT ![i].trans = UnitOutcome(i).trans]
                   /\ column_sharers' =
                         IF HasSharer(trans)
                         THEN [column_sharers EXCEPT ![SharerOf(trans)] = cs]
                         ELSE column_sharers
    /\ finished' = Append(finished, i)
    /\ UNCHANGED <<pc, call, result, configVars, schedVars, restVars>>

UnitRaises_KeepsCompleted(i) ==
    /\ MayComplete(i)
    /\ ~Slice(i).ok \/ ~UnitOutcome(i).ok
    /\ pc' = "idle"
    /\ call' = NoCall
    /\ result' = CallRaised(call.op, call.X,
                            IF ~Slice(i).ok THEN Slice(i).err ELSE UnitOutcome(i).err)
    /\ transformer_list' =
          [j \in 1..Len(transformer_list) |->
              IF results[j].done
              THEN [transformer_list[j] EXCEPT !.trans = results[j].trans]
              ELSE transformer_list[j]]
    /\ UNCHANGED <<column_sharers, results, finished, configVars, schedVars, restVars>>

(* Slicing the unit's columns, or the unit's function, raises: the call    *)
(* raises.                                                                 *)
UnitRaises(i) ==
    /\ MayComplete(i)
    /\ ~Slice(i).ok \/ ~UnitOutcome(i).ok
    /\ pc' = "idle"
    /\ call' = NoCall
    /\ result' = CallRaised(call.op, call.X,
                            IF ~Slice(i).ok THEN Slice(i).err ELSE UnitOutcome(i).err)
    /\ UNCHANGED <<transformer_list, column_sharers, results, finished, configVars, schedVars, restVars>>

(* Every unit has returned: the rest of the call. *)
Return ==
    /\ pc = "running"
    /\ \A i \in Range(_iter(transformer_list)) : results[i].done
    /\ LET res == CollectResults(transformer_list, results, finished)
           out == CASE call.op = "fit" ->
                          fit(call.X, transformer_list, column_sharers, res, n_jobs)
                    [] call.op = "transform" ->
                          transform(call.X, transformer_list, column_sharers, res,
                                    collapse_index, hashseed)
                    [] call.op = "fit_transform" ->
                          fit_transform(call.X, transformer_list, column_sharers, res,
                                        n_jobs, collapse_index, hashseed)
                    [] call.op = "inverse_transform" ->
                          inverse_transform(call.X, transformer_list, column_sharers, res,
                                            n_jobs, collapse_index, hashseed)
       IN  /\ transformer_list' = out.transformer_list
           /\ column_sharers' = out.column_sharers
           /\ result' = out.result
    /\ pc' = "idle"
    /\ call' = NoCall
    /\ UNCHANGED <<results, finished, configVars, schedVars, restVars>>

-----------------------------------------------------------------------------
(* SmartTransformer (smart/smart.py).  The operators it binds are external *)
(* objects; the model keeps an operator's identity (deepcopy makes a new   *)
(* object), its kind, the name and keep_columns attributes that resolve    *)
(* copies onto it, and the data its fit last ran on.                       *)

MaxCalls == 3       \* calls and assignments made on one object

(* The data handed to the calls. *)
Samples == {1, 2}

(* What can be assigned to the transformer property, or returned by        *)
(* pick_transformer: None, an operator instance, a class name, a dict with *)
(* class_name, or an object that is no operator.                           *)
ValueKinds == {"None", "instance", "str", "dict", "object"}

NoTransformer ==
    [kind |-> "None", id |-> 0, name |-> "", keep_columns |-> FALSE, fitted_on |-> 0]

(* deepcopy(value), or an instance made by get_transformer: a new object. *)
NewOperator(kind, id) ==
    [kind |-> kind, id |-> id, name |-> "", keep_columns |-> FALSE, fitted_on |-> 0]

WrapperName == "smart"

unset_resolve_ShouldOnly(self) == [self EXCEPT !.should_resolve = FALSE]

(* unset_resolve (lines 89-92). *)
unset_resolve(self) ==
    [self EXCEPT !.should_resolve = FALSE, !.force_reresolve = FALSE]

SetDone(self, made) == [ok |-> TRUE, err |-> "", self |-> self, made |-> made]
SetRaised(e, self, made) == [ok |-> FALSE, err |-> e, self |-> self, made |-> made]

(* The transformer setter (lines 94-136).  made counts the operator        *)
(* objects created so far; a class name or a dict is instantiated and      *)
(* turns resolving off, an instance is copied and leaves the flags alone.  *)
transformer_setter(self, value, made) ==
    LET byname  == value \in {"str", "dict"}
        flagged == IF byname THEN unset_resolve(self) ELSE self
        kind    == IF byname THEN "instance" ELSE value
        is_trans      == kind = "instance"
        trans_wrapped == IF self.check_wrapped THEN kind = "instance" ELSE TRUE
        is_none       == kind = "None"
    IN  IF ~(is_trans \/ is_none \/ trans_wrapped)
        THEN SetRaised("ValueError", flagged, made)
        ELSE IF is_none
        THEN SetDone([flagged EXCEPT !.transformer = NoTransformer], made)
        ELSE SetDone([flagged EXCEPT !.transformer = NewOperator(kind, made + 1)],
                     made + 1)

(* The arguments of the constructor (lines 55-66). *)
SmartArgs ==
    [transformer : {"None", "instance", "str", "dict"}, should_resolve : BOOLEAN,
     force_reresolve : BOOLEAN, check_wrapped : BOOLEAN]

DefaultArgs ==
    [transformer |-> "None", should_resolve |-> TRUE, force_reresolve |-> FALSE,
     check_wrapped |-> TRUE]

(* __init__ (lines 67-77): the transformer is assigned while the attribute *)
(* check_wrapped does not exist yet (getattr's default True applies), and  *)
(* check_wrapped is set after it.                                          *)
SmartTransformer_init(args) ==
    LET blank == [transformer |-> NoTransformer,
                  should_resolve |-> args.should_resolve,
                  force_reresolve |-> args.force_reresolve,
                  check_wrapped |-> TRUE,
                  name |-> WrapperName, keep_columns |-> TRUE]
        set   == transformer_setter(blank, args.transformer, 0)
    IN  [set EXCEPT !.self.check_wrapped = args.check_wrapped]

(* What pick_transformer does when it is invoked: it raises, or returns a  *)
(* value of one of the kinds.                                              *)
PickOutcomes == {"raises"} \cup ValueKinds

(* What a method of the bound operator does. *)
OperatorOutcomes == {"returns", "raises"}

(* What a call did: picked is the data pick_transformer was invoked on (0  *)
(* when it was not invoked), ran whether the bound operator's fit ran.     *)
SmartDone(self, made, picked, ran) ==
    [ok |-> TRUE, err |-> "", self |-> self, made |-> made, picked |-> picked, ran |-> ran]

SmartRaised(e, self, made, picked, ran) ==
    [ok |-> FALSE, err |-> e, self |-> self, made |-> made, picked |-> picked, ran |-> ran]

resolve_KeepsFlag(self, X, pick, made) ==
    LET forced == IF self.force_reresolve THEN [self EXCEPT !.should_resolve = TRUE]
                  ELSE self
    IN  IF ~forced.should_resolve THEN SmartDone(forced, made, 0, FALSE)
        ELSE IF pick = "raises" THEN SmartRaised("PickError", forced, made, X, FALSE)
        ELSE LET set == transformer_setter(forced, pick, made)
             IN  IF ~set.ok THEN SmartRaised(set.err, set.self, set.made, X, FALSE)
                 ELSE IF set.self.transformer.kind = "None"
                 THEN SmartRaised("AttributeError", set.self, set.made, X, FALSE)
                 ELSE SmartDone([set.self EXCEPT !.transformer.name = self.name,
                                                 !.transformer.keep_columns = self.keep_columns],
                                set.made, X, FALSE)

(* resolve (lines 215-240).  force_reresolve turns should_resolve on; when *)
(* it is on, pick_transformer runs and its result goes through the setter, *)
(* then the wrapper's name (the new object has none) and keep_columns are  *)
(* set on the bound object: on None that is an AttributeError.  An         *)
(* exception leaves before should_resolve is reset.                        *)
resolve(self, X, pick, made) ==
    LET forced == IF self.force_reresolve THEN [self EXCEPT !.should_resolve = TRUE]
                  ELSE self
    IN  IF ~forced.should_resolve
        THEN SmartDone([forced EXCEPT !.should_resolve = FALSE], made, 0, FALSE)
        ELSE IF pick = "raises" THEN SmartRaised("PickError", forced, made, X, FALSE)
        ELSE LET set == transformer_setter(forced, pick, made)
             IN  IF ~set.ok THEN SmartRaised(set.err, set.self, set.made, X, FALSE)
                 ELSE IF set.self.transformer.kind = "None"
                 THEN SmartRaised("AttributeError", set.self, set.made, X, FALSE)
                 ELSE SmartDone([set.self EXCEPT !.transformer.name = self.name,
                                                 !.transformer.keep_columns = self.keep_columns,
                                                 !.should_resolve = FALSE],
                                set.made, X, FALSE)

(* fit (lines 274-279): resolve, then self.transformer.fit(X, y).  None    *)
(* has no attribute full_df to set, an object that is no operator has no   *)
(* fit.                                                                    *)
Smart_fit(self, X, pick, outcome, made) ==
    LET r == resolve(self, X, pick, made)
    IN  IF ~r.ok THEN r
        ELSE IF r.self.transformer.kind # "instance"
        THEN SmartRaised("AttributeError", r.self, r.made, r.picked, FALSE)
        ELSE IF outcome = "raises"
        THEN SmartRaised("OperatorError", r.self, r.made, r.picked, TRUE)
        ELSE SmartDone([r.self EXCEPT !.transformer.fitted_on = X], r.made, r.picked, TRUE)

(* transform (lines 252-254) and inverse_transform (lines 295-297):        *)
(* resolve, then the bound operator's method.                              *)
Smart_transform(self, X, pick, outcome, made) ==
    LET r == resolve(self, X, pick, made)
    IN  IF ~r.ok THEN r
        ELSE IF r.self.transformer.kind # "instance"
        THEN SmartRaised("AttributeError", r.self, r.made, r.picked, FALSE)
        ELSE IF outcome = "raises"
        THEN SmartRaised("OperatorError", r.self, r.made, r.picked, FALSE)
        ELSE SmartDone(r.self, r.made, r.picked, FALSE)

Smart_inverse_transform(self, X, pick, outcome, made) ==
    Smart_transform(self, X, pick, outcome, made)

SmartOps == {"fit", "transform", "inverse_transform"}

NoSmartCall ==
    [op |-> "none", X |-> 0, picked |-> 0, pick |-> "", before |-> 0,
     ok |-> FALSE, err |-> "not called", ran |-> FALSE]

NoHistory(made) ==
    [calls |-> 0, picks |-> 0, failed |-> FALSE, assigned |-> "none", made |-> made,
     last |-> NoSmartCall]

(* A wrapper nobody calls. *)
SmartIdle ==
    /\ smart = SmartTransformer_init(DefaultArgs).self
    /\ smart_args = DefaultArgs
    /\ smart_hist = NoHistory(0)

(* One call of fit, transform or inverse_transform on the wrapper.  What   *)
(* pick_transformer would do is a choice only in a call that invokes it,   *)
(* and what the operator's method would do only in a call that reaches it. *)
SmartCall(op, X, pick, outcome) ==
    /\ smart_hist.calls < MaxCalls
    /\ pick = "instance" \/ smart.force_reresolve \/ smart.should_resolve
    /\ \/ outcome = "returns"
       \/ LET r == resolve(smart, X, pick, smart_hist.made)
          IN  r.ok /\ r.self.transformer.kind = "instance"
    /\ LET r == IF op = "fit" THEN Smart_fit(smart, X, pick, outcome, smart_hist.made)
                ELSE IF op = "transform"
                THEN Smart_transform(smart, X, pick, outcome, smart_hist.made)
                ELSE Smart_inverse_transform(smart, X, pick, outcome, smart_hist.made)
       IN  /\ smart' = r.self
           /\ smart_hist' =
                 [calls |-> smart_hist.calls + 1,
                  picks |-> smart_hist.picks + (IF r.picked # 0 THEN 1 ELSE 0),
                  failed |-> smart_hist.failed \/ ~r.ok,
                  assigned |-> smart_hist.assigned,
                  made |-> r.made,
                  last |-> [op |-> op, X |-> X, picked |-> r.picked,
                            pick |-> IF r.picked # 0 THEN pick ELSE "",
                            before |-> smart.transformer.id,
                            ok |-> r.ok, err |-> r.err, ran |-> r.ran]]
    /\ UNCHANGED <<smart_args, sliced, merge, fused, prep, schedVars, engVars>>

(* smart.transformer = value, after construction. *)
SmartAssign(value) ==
    /\ smart_hist.calls < MaxCalls
    /\ LET set == transformer_setter(smart, value, smart_hist.made)
       IN  /\ smart' = set.self
           /\ smart_hist' =
                 [calls |-> smart_hist.calls + 1,
                  picks |-> smart_hist.picks,
                  failed |-> smart_hist.failed \/ ~set.ok,
                  assigned |-> IF set.ok THEN value ELSE smart_hist.assigned,
                  made |-> set.made,
                  last |-> [op |-> "assign", X |-> 0, picked |-> 0, pick |-> value,
                            before |-> smart.transformer.id,
                            ok |-> set.ok, err |-> set.err, ran |-> FALSE]]
    /\ UNCHANGED <<smart_args, sliced, merge, fused, prep, schedVars, engVars>>

-----------------------------------------------------------------------------
(* _slice_cols applied to tables with two-level labels. *)

MaxNames == 2       \* names in one requested list

ColZ == <<122>>

Marked(c) == <<Dollar>> \o c

SliceNames == {ColAB, ColC, ColB, ColZ, Marked(ColB), Marked(ColAB), Marked(ColZ)}

SliceColLists == UNION {[1..n -> SliceNames] : n \in 0..MaxNames}

SliceTables ==
    {<<TwoLevelColumn(ColAB, ColB), TwoLevelColumn(ColAB, ColAB),
       TwoLevelColumn(ColC, ColC), TwoLevelColumn(ColA, ColA)>>,
     <<TwoLevelColumn(ColB, ColB), TwoLevelColumn(ColB, ColAB),
       TwoLevelColumn(ColC, ColB)>>}

NotSliced ==
    [applied |-> FALSE, X |-> EmptyTable, cols |-> <<>>, drop_level |-> TRUE,
     out |-> Sliced(EmptyTable)]

SliceCols(X, cols, drop_level) ==
    /\ sliced' = [applied |-> TRUE, X |-> X, cols |-> cols, drop_level |-> drop_level,
                  out |-> _slice_cols(X, cols, drop_level)]
    /\ UNCHANGED <<smartVars, merge, fused, prep, schedVars, engVars>>

-----------------------------------------------------------------------------
(* _update_original_column_sharer_with_another on its own: ColumnSharers   *)
(* as dicts that hold some of the keys.                                    *)

SharerContents(values) == UNION {[D -> values] : D \in SUBSET Keys}

NotMerged == [applied |-> FALSE, original |-> <<>>, copy |-> <<>>, out |-> <<>>]

MergeOne(column_sharer, modified_cs) ==
    /\ merge' = [applied |-> TRUE, original |-> column_sharer, copy |-> modified_cs,
                 out |-> _update_original_column_sharer_with_another(column_sharer,
                                                                     modified_cs)]
    /\ UNCHANGED <<smartVars, sliced, fused, prep, schedVars, engVars>>

(* The Pipeline of a fused block before a call: no step is running. *)
NotFused ==
    [steps |-> <<>>, op |-> "none", X |-> EmptyTable, k |-> 0, at |-> "idle",
     out |-> EmptyTable]

(* What a method hands back: None, the object itself, or a table. *)
ReturnedNone == [kind |-> "None", X |-> EmptyTable]
ReturnedSelf == [kind |-> "self", X |-> EmptyTable]
ReturnedTable(X) == [kind |-> "table", X |-> X]

NoPrepCall ==
    [op |-> "none", X |-> EmptyTable, ran |-> "none", proc |-> 0, ok |-> FALSE,
     err |-> "not called", returned |-> ReturnedNone]

(* A PreparerStep after __init__ (lines 31-44): _parallel_process is None  *)
(* (proc = 0).                                                             *)
NotPrepared ==
    [calls |-> 0, maps |-> 0, plans |-> 0, proc |-> 0, at |-> "idle",
     op |-> "none", X |-> EmptyTable, ran |-> "none", built_on |-> EmptyTable,
     last |-> NoPrepCall]

(* What no call has touched. *)
ExtraIdle ==
    /\ sliced = NotSliced
    /\ merge = NotMerged
    /\ fused = NotFused
    /\ prep = NotPrepared

-----------------------------------------------------------------------------
(* The engine on tables: operators without a ColumnSharer. *)

UnitName(i) == <<"unit", i>>

Entry(i, trans, cols) == [name |-> UnitName(i), trans |-> trans, cols |-> cols]

TransformerLists(Kinds, ColLists, lo) ==
    UNION {{[i \in 1..n |-> Entry(i, IF f[i].kind = "None" THEN None
                                     ELSE IF f[i].kind = "plain" THEN PlainOperator(i)
                                     ELSE IF f[i].kind = "pipeline"
                                     THEN PipelineOperator(i, <<Canonical, Canonical>>)
                                     ELSE IF f[i].kind = "imputer_first"
                                     THEN PipelineOperator(i, <<NoCS, Canonical>>)
                                     ELSE IF f[i].kind = "no_transform"
                                     THEN OperatorWithout(i, {"transform"})
                                     ELSE IF f[i].kind = "no_fit"
                                     THEN OperatorWithout(i, {"fit"})
                                     ELSE OperatorWithout(i, {"fit", "fit_transform"}),
                                  f[i].cols)] :
              f \in [1..n -> [kind : Kinds, cols : ColLists]]} : n \in lo..MaxUnits}

HashSeeds == {0, 1}

EngIdle ==
    /\ transformer_list = <<>>
    /\ n_jobs = 1
    /\ collapse_index = FALSE
    /\ hashseed = 0
    /\ column_sharers = [s \in StoreIds |-> Blank]
    /\ pc = "idle"
    /\ call = NoCall
    /\ results = <<>>
    /\ finished = <<>>
    /\ result = NoResult

SchedIdle ==
    /\ column_mapping = <<>>
    /\ final_mapping = [ok |-> FALSE, err |-> "not called", map |-> <<>>]
    /\ group_transformer_list = [ok |-> FALSE, err |-> "not called", map |-> <<>>]
    /\ spc = "mapping"

EngJobs == {1, -1}

EngInit ==
    /\ SmartIdle
    /\ ExtraIdle
    /\ transformer_list \in TransformerLists({"None", "plain"}, EngColLists, 0)
    /\ n_jobs \in EngJobs
    /\ collapse_index \in BOOLEAN
    /\ hashseed \in HashSeeds
    /\ column_sharers = [s \in StoreIds |-> Blank]
    /\ pc = "idle"
    /\ call = NoCall
    /\ results = <<>>
    /\ finished = <<>>
    /\ result = NoResult
    /\ SchedIdle

(* A behaviour repeats its calls on one table. *)
EngNext ==
    \/ \E op \in Ops, X \in Tables :
          /\ result = NoResult \/ result.X_in = X
          /\ Call(op, X)
    \/ \E i \in 1..MaxUnits : UnitCompletes(i, NoWrites)
    \/ \E i \in 1..MaxUnits : UnitRaises(i)
    \/ Return

EngSpec == EngInit /\ [][EngNext]_vars

-----------------------------------------------------------------------------
(* The engine on operators that may lack methods. *)

ValidInit ==
    /\ SmartIdle
    /\ ExtraIdle
    /\ transformer_list \in
          TransformerLists({"None", "plain", "no_transform", "no_fit", "no_fit_at_all"},
                           {<<ColAB>>}, 0)
    /\ n_jobs \in EngJobs
    /\ collapse_index = FALSE
    /\ hashseed = 0
    /\ column_sharers = [s \in StoreIds |-> Blank]
    /\ pc = "idle"
    /\ call = NoCall
    /\ results = <<>>
    /\ finished = <<>>
    /\ result = NoResult
    /\ SchedIdle

ValidSpec == ValidInit /\ [][EngNext]_vars

-----------------------------------------------------------------------------
(* The engine on a ColumnSharer: one fit or fit_transform of operators     *)
(* that may be Pipelines whose steps share the ColumnSharer.               *)

StoreJobs == {1, 2, -1, -2}

StoreInit ==
    /\ SmartIdle
    /\ ExtraIdle
    /\ transformer_list \in
          TransformerLists({"None", "plain", "pipeline", "imputer_first"}, {<<ColAB>>}, 1)
    /\ n_jobs \in StoreJobs
    /\ collapse_index = FALSE
    /\ hashseed = 0
    /\ \E c \in [Keys -> {NoneValue, OldValue}] :
          column_sharers = [s \in StoreIds |-> IF s = Canonical THEN c ELSE Blank]
    /\ pc = "idle"
    /\ call = NoCall
    /\ results = <<>>
    /\ finished = <<>>
    /\ result = NoResult
    /\ SchedIdle

StoreNext ==
    \/ \E op \in {"fit", "fit_transform"}, X \in Tables :
          /\ result = NoResult
          /\ Call(op, X)
    \/ \E i \in 1..MaxUnits, w \in WriteChoices : UnitCompletes(i, w)
    \/ \E i \in 1..MaxUnits : UnitRaises(i)
    \/ Return

StoreSpec == StoreInit /\ [][StoreNext]_vars

-----
(* The scheduler's specification: a mapping is chosen, and the two         *)
(* planning entry points are called on it.                                 *)

NotCalled == [ok |-> FALSE, err |-> "not called", map |-> <<>>]

SchedInit ==
    /\ SmartIdle
    /\ ExtraIdle
    /\ column_mapping = <<>>
    /\ final_mapping = NotCalled
    /\ group_transformer_list = NotCalled
    /\ spc = "mapping"
    /\ EngIdle

(* get_mapping inserts one more group into the dict it returns. *)
InsertGroup ==
    /\ spc = "mapping"
    /\ Len(column_mapping) < MaxGroups
    /\ \E g \in GroupIds, cs \in StepColChoices :
          /\ \A i \in 1..Len(column_mapping) : column_mapping[i].group # g
          /\ column_mapping' = Append(column_mapping, [group |-> g, steps |-> MkSteps(g, cs)])
    /\ UNCHANGED <<final_mapping, group_transformer_list, spc, engVars, restVars>>

(* parallelize_smart_steps (lines 150-160): plans the mapping with         *)
(* parallelize_mapping and lists the plan's values; an error of the        *)
(* planning propagates.                                                    *)
ParallelizeSmartSteps ==
    /\ spc = "mapping"
    /\ final_mapping' = parallelize_mapping(column_mapping)
    /\ group_transformer_list' =
          IF final_mapping'.ok
          THEN Returned(GroupTransformerList(final_mapping'.map))
          ELSE final_mapping'
    /\ spc' = "planned"
    /\ UNCHANGED <<column_mapping, engVars, restVars>>

SchedNext == InsertGroup \/ ParallelizeSmartSteps

SchedSpec == SchedInit /\ [][SchedNext]_vars

-----------------------------------------------------------------------------
(* parallelize_mapping is a static method: it can be called again on the   *)
(* mapping it has planned already.                                         *)

(* Mutant: the second call puts the fused block first. *)
ParallelizeMappingAgain_FusedFirst ==
    /\ spc = "planned"
    /\ final_mapping' = parallelize_mapping_FusedFirst(column_mapping)
    /\ spc' = "replanned"
    /\ UNCHANGED <<column_mapping, group_transformer_list, engVars, restVars>>

ParallelizeMappingAgain ==
    /\ spc = "planned"
    /\ final_mapping' = parallelize_mapping(column_mapping)
    /\ spc' = "replanned"
    /\ UNCHANGED <<column_mapping, group_transformer_list, engVars, restVars>>

ReplanNext == InsertGroup \/ ParallelizeSmartSteps \/ ParallelizeMappingAgain

ReplanSpec == SchedInit /\ [][ReplanNext]_vars

-----------------------------------------------------------------------------
(* The scheduler and the engine it builds: parallelize_smart_steps ends    *)
(* with ParallelProcessor(group_transformer_list) (line 160), and the      *)
(* PreparerStep calls that processor.                                      *)

(* The columns of a unit as a list: those of an independent unit are one, *)
(* list(all_cols) (line 125) has the iteration order of the set.           *)
ColumnList(unit, seed) ==
    IF unit.name[1] # grouped_pipeline[1] THEN unit.cols
    ELSE LET ordered == SetOrder({InputColumn(c) : c \in unit.cols}, seed)
         IN  [k \in 1..Len(ordered) |-> ordered[k].new]

(* The Pipeline of a unit as the engine sees it: an operator with steps,   *)
(* none of which has a column_sharer yet.                                  *)
UnitPipeline(i, unit) ==
    PipelineOperator(i, [k \in 1..Len(unit.trans.steps) |-> NoCS])

(* ParallelProcessor(group_transformer_list), with the defaults            *)
(* n_jobs = -1 and collapse_index = False (lines 51-67).                   *)
BuildProcessor ==
    /\ spc = "planned"
    /\ group_transformer_list.ok
    /\ pc = "idle"
    /\ spc' = "built"
    /\ transformer_list' =
          [i \in 1..Len(group_transformer_list.map) |->
              [name  |-> group_transformer_list.map[i].name,
               trans |-> UnitPipeline(i, group_transformer_list.map[i]),
               cols  |-> ColumnList(group_transformer_list.map[i], hashseed)]]
    /\ n_jobs' = -1
    /\ collapse_index' = FALSE
    /\ UNCHANGED <<column_mapping, final_mapping, group_transformer_list,
                   column_sharers, hashseed, pc, call, results, finished, result, restVars>>

PlanInit ==
    /\ SmartIdle
    /\ ExtraIdle
    /\ column_mapping = <<>>
    /\ final_mapping = NotCalled
    /\ group_transformer_list = NotCalled
    /\ spc = "mapping"
    /\ transformer_list = <<>>
    /\ n_jobs = -1
    /\ collapse_index = FALSE
    /\ hashseed \in HashSeeds
    /\ column_sharers = [s \in StoreIds |-> Blank]
    /\ pc = "idle"
    /\ call = NoCall
    /\ results = <<>>
    /\ finished = <<>>
    /\ result = NoResult

PlanNext ==
    \/ InsertGroup
    \/ ParallelizeSmartSteps
    \/ BuildProcessor
    \/ \E op \in Ops, X \in Tables :
          /\ spc = "built"
          /\ result = NoResult \/ result.X_in = X
          /\ Call(op, X)
    \/ \E i \in 1..MaxGroups : UnitCompletes(i, NoWrites)
    \/ \E i \in 1..MaxGroups : UnitRaises(i)
    \/ Return

PlanSpec == PlanInit /\ [][PlanNext]_vars

-----------------------------------------------------------------------------
(* A SmartTransformer, constructed with any arguments, then called and     *)
(* assigned to.                                                            *)

SmartInit ==
    /\ \E args \in SmartArgs :
          LET made == SmartTransformer_init(args)
          IN  /\ made.ok
              /\ smart = made.self
              /\ smart_args = args
              /\ smart_hist = NoHistory(made.made)
    /\ ExtraIdle
    /\ EngIdle
    /\ SchedIdle

SmartNext ==
    \/ \E op \in SmartOps, X \in Samples, pick \in PickOutcomes,
          outcome \in OperatorOutcomes : SmartCall(op, X, pick, outcome)
    \/ \E value \in ValueKinds : SmartAssign(value)

SmartSpec == SmartInit /\ [][SmartNext]_vars

(* _slice_cols on its own. *)
SliceInit ==
    /\ ExtraIdle
    /\ SmartIdle
    /\ EngIdle
    /\ SchedIdle

SliceNext ==
    \E X \in SliceTables, cols \in SliceColLists, drop_level \in BOOLEAN :
       SliceCols(X, cols, drop_level)

SliceSpec == SliceInit /\ [][SliceNext]_vars

-----------------------------------------------------------------------------
(* The engine with collapse_index set, also on two-level tables in which   *)
(* one derived name occurs under two origins.                              *)

CollapseTables == Tables \cup SliceTables

CollapseInit ==
    /\ SmartIdle
    /\ ExtraIdle
    /\ transformer_list \in TransformerLists({"None", "plain"}, EngColLists, 0)
    /\ n_jobs \in EngJobs
    /\ collapse_index = TRUE
    /\ hashseed \in HashSeeds
    /\ column_sharers = [s \in StoreIds |-> Blank]
    /\ pc = "idle"
    /\ call = NoCall
    /\ results = <<>>
    /\ finished = <<>>
    /\ result = NoResult
    /\ SchedIdle

CollapseNext ==
    \/ \E op \in Ops, X \in CollapseTables :
          /\ result = NoResult \/ result.X_in = X
          /\ Call(op, X)
    \/ \E i \in 1..MaxUnits : UnitCompletes(i, NoWrites)
    \/ \E i \in 1..MaxUnits : UnitRaises(i)
    \/ Return

CollapseSpec == CollapseInit /\ [][CollapseNext]_vars

-----------------------------------------------------------------------------
(* One fit, fit_transform or inverse_transform in which a unit may fail:   *)
(* an operator without fit (its fit raises AttributeError), or a unit      *)
(* declared on no column (IndexError), beside Pipelines that share a       *)
(* ColumnSharer.                                                           *)

FailCalls == {"fit", "fit_transform", "inverse_transform"}

FailInit ==
    /\ SmartIdle
    /\ ExtraIdle
    /\ transformer_list \in
          TransformerLists({"pipeline", "no_fit"}, {<<>>, <<ColAB>>}, 1)
    /\ n_jobs \in EngJobs
    /\ collapse_index = FALSE
    /\ hashseed = 0
    /\ \E c \in [Keys -> {NoneValue, OldValue}] :
          column_sharers = [s \in StoreIds |-> IF s = Canonical THEN c ELSE Blank]
    /\ pc = "idle"
    /\ call = NoCall
    /\ results = <<>>
    /\ finished = <<>>
    /\ result = NoResult
    /\ SchedIdle

FailNext ==
    \/ \E op \in FailCalls, X \in Tables :
          /\ result = NoResult
          /\ Call(op, X)
    \/ \E i \in 1..MaxUnits, w \in WriteChoices : UnitCompletes(i, w)
    \/ \E i \in 1..MaxUnits : UnitRaises(i)
    \/ Return

FailSpec == FailInit /\ [][FailNext]_vars

-----------------------------------------------------------------------------
(* The fused block: Pipeline(steps) of lines 98-125, each step the         *)
(* ParallelProcessor of one step number, with the defaults n_jobs = -1 and *)
(* collapse_index = False.  Pipeline (sklearn) calls its steps one after   *)
(* the other and hands each the table the step before it returned.         *)

FusedColLists == {<<ColA>>, <<ColB, ColA>>}

(* The steps of a group whose columns are not the same at every step. *)
FusedStepCols == {cs \in [1..MaxSteps -> FusedColLists] : \E s \in 1..MaxSteps : cs[s] # cs[1]}

(* Mappings in which every group is interdependent: the groups 0, 1, ... *)
FusedMappings ==
    UNION {{[g \in 1..n |-> [group |-> g - 1, steps |-> MkSteps(g - 1, f[g])]] :
              f \in [1..n -> FusedStepCols]} : n \in 1..MaxGroups}

(* The operator object of a step of the mapping. *)
OperatorOf(trans) == PlainOperator(trans[2] * MaxSteps + trans[3] + 1)

(* ParallelProcessor(transformer_list) of line 119. *)
StepProcessor(tl) ==
    [i \in 1..Len(tl) |-> [name |-> tl[i].name, trans |-> OperatorOf(tl[i].trans),
                           cols |-> tl[i].cols]]

FusedSteps(mapping) ==
    LET steps == GroupedPipeline(mapping).trans.steps
    IN  [k \in 1..Len(steps) |-> StepProcessor(steps[k].transformer_list)]

(* Pipeline: fit, transform and fit_transform go through the steps from    *)
(* the first, inverse_transform from the last.                             *)
FirstStep(op, n) == IF op = "inverse_transform" THEN n ELSE 1

NextStep(op, k) == IF op = "inverse_transform" THEN k - 1 ELSE k + 1

IsLastStep(op, k, n) == IF op = "inverse_transform" THEN k = 1 ELSE k = n

(* Pipeline.fit calls fit_transform on every step but the last, and fit on *)
(* the last; the other methods call the step's method of the same name.    *)
StepOp(op, k, n) == IF op = "fit" /\ k # n THEN "fit_transform" ELSE op

(* Mutant: every step is handed the table the Pipeline was called with. *)
PipelineInput_Original(X, Xt) == X

(* Xt of Pipeline: the table the step before returned. *)
PipelineInput(X, Xt) == Xt

(* op is called on the processor tl: the start of the processor's call,   *)
(* as in Call.                                                             *)
StartCall(tl, op, X) ==
    /\ transformer_list' = tl
    /\ IF op # "transform" /\ _validate_transformers(tl) # ""
       THEN /\ pc' = "idle"
            /\ call' = NoCall
            /\ result' = IF _validate_transformers(tl) = "TypeError"
                         THEN CallRaisedAbout(op, X, "TypeError", FirstRejected(tl))
                         ELSE CallRaised(op, X, _validate_transformers(tl))
       ELSE /\ pc' = "running"
            /\ call' = [op |-> op, X |-> X]
            /\ result' = NoResult
    /\ results' = [i \in 1..Len(tl) |-> Pending]
    /\ finished' = <<>>
    /\ UNCHANGED <<column_sharers, configVars>>

(* The Pipeline calls op on one of its step processors. *)
EnterStep(tl, op, X) ==
    /\ StartCall(tl, op, X)
    /\ UNCHANGED <<schedVars, smartVars, sliced, merge, prep>>

(* A method of the Pipeline is called: its first step starts. *)
FusedCall(op, X) ==
    /\ fused.at = "idle"
    /\ pc = "idle"
    /\ LET n == Len(fused.steps)
           k == FirstStep(op, n)
       IN  /\ fused' = [fused EXCEPT !.op = op, !.X = X, !.k = k, !.at = "running"]
           /\ EnterStep(fused.steps[k], StepOp(op, k, n), X)

(* The running step's call has ended: an error leaves the Pipeline, the    *)
(* last step's result is the Pipeline's, and otherwise the next step is    *)
(* called with the table this one returned.                                *)
FusedAdvance ==
    /\ fused.at = "running"
    /\ pc = "idle"
    /\ LET n == Len(fused.steps)
           k == fused.k
           kept == [fused EXCEPT !.steps[k] = transformer_list]
       IN  IF ~result.ok
           THEN /\ fused' = [kept EXCEPT !.at = "failed"]
                /\ UNCHANGED <<engVars, schedVars, smartVars, sliced, merge, prep>>
           ELSE IF IsLastStep(fused.op, k, n)
           THEN /\ fused' = [kept EXCEPT !.at = "done", !.out = result.X]
                /\ UNCHANGED <<engVars, schedVars, smartVars, sliced, merge, prep>>
           ELSE /\ fused' = [kept EXCEPT !.k = NextStep(fused.op, k)]
                /\ EnterStep(fused.steps[NextStep(fused.op, k)],
                             StepOp(fused.op, NextStep(fused.op, k), n),
                             PipelineInput(fused.X, result.X))

FusedInit ==
    /\ SmartIdle
    /\ sliced = NotSliced
    /\ merge = NotMerged
    /\ prep = NotPrepared
    /\ column_mapping \in FusedMappings
    /\ final_mapping = parallelize_mapping(column_mapping)
    /\ group_transformer_list = Returned(GroupTransformerList(final_mapping.map))
    /\ spc = "planned"
    /\ fused = [NotFused EXCEPT !.steps = FusedSteps(column_mapping)]
    /\ transformer_list = <<>>
    /\ n_jobs = -1
    /\ collapse_index = FALSE
    /\ hashseed = 0
    /\ column_sharers = [s \in StoreIds |-> Blank]
    /\ pc = "idle"
    /\ call = NoCall
    /\ results = <<>>
    /\ finished = <<>>
    /\ result = NoResult

FusedNext ==
    \/ \E op \in Ops, X \in Tables : FusedCall(op, X)
    \/ \E i \in 1..MaxGroups : UnitCompletes(i, NoWrites)
    \/ \E i \in 1..MaxGroups : UnitRaises(i)
    \/ Return
    \/ FusedAdvance

FusedSpec == FusedInit /\ [][FusedNext]_vars

-----------------------------------------------------------------------------
(* PreparerStep: fit, transform, fit_transform and inverse_transform       *)
(* (lines 212-242) on one object.                                          *)

(* What get_mapping of a subclass may return: one group with the same      *)
(* columns at both steps; an interdependent group 0 next to such a group;  *)
(* an interdependent group where there is no group 0; or, as in the base   *)
(* class, NotImplementedError (line 210).                                  *)
PrepMappings ==
    {<<[group |-> 0, steps |-> MkSteps(0, <<(<<ColA>>), (<<ColA>>)>>)]>>,
     <<[group |-> 0, steps |-> MkSteps(0, <<(<<ColA>>), (<<ColB, ColA>>)>>)],
       [group |-> 1, steps |-> MkSteps(1, <<(<<ColC>>), (<<ColC>>)>>)]>>,
     <<[group |-> 1, steps |-> MkSteps(1, <<(<<ColA>>), (<<ColB, ColA>>)>>)]>>}

NoMapping == Raised("NotImplementedError")

get_mapping == {NoMapping} \cup {Returned(m) : m \in PrepMappings}

(* Mutant: every call builds a processor. *)
check_process_Always(p) == TRUE

(* check_process (lines 227-231): a processor is built when                *)
(* _parallel_process is None.                                              *)
check_process(p) == p.proc = 0

(* parallelize_smart_steps (lines 150-160) on what get_mapping returned:   *)
(* the plan's values, or the error of get_mapping or of the planning.      *)
parallelize_smart_steps(got) ==
    IF ~got.ok THEN got
    ELSE IF ~parallelize_mapping(got.map).ok THEN parallelize_mapping(got.map)
    ELSE Returned(GroupTransformerList(parallelize_mapping(got.map).map))

(* ParallelProcessor(group_transformer_list), line 160. *)
ProcessorOf(gtl, seed) ==
    [i \in 1..Len(gtl) |-> [name  |-> gtl[i].name,
                            trans |-> UnitPipeline(i, gtl[i]),
                            cols  |-> ColumnList(gtl[i], seed)]]

(* The method of _parallel_process that each method calls: fit calls fit   *)
(* (225), transform and inverse_transform call transform (238, 242),       *)
(* fit_transform calls none (233-234).                                     *)
Delegate(op) ==
    CASE op = "fit" -> "fit"
      [] op = "transform" -> "transform"
      [] op = "inverse_transform" -> "transform"
      [] op = "fit_transform" -> "none"

PrepLast(op, X, ran, proc, ok, err) ==
    [op |-> op, X |-> X, ran |-> ran, proc |-> proc, ok |-> ok, err |-> err,
     returned |-> ReturnedNone]      \* no method has a return statement

(* A method is called: check_process, then the call on the processor       *)
(* starts.  got is what get_mapping does if it is invoked.                 *)
PrepCall(op, X, got) ==
    /\ prep.at = "idle"
    /\ pc = "idle"
    /\ prep.calls < MaxCalls
    /\ ~check_process(prep) => got = NoMapping
    /\ LET builds == check_process(prep)
           gtl == parallelize_smart_steps(got)
           counted == [prep EXCEPT !.calls = @ + 1,
                                   !.maps = IF builds THEN @ + 1 ELSE @,
                                   !.plans = IF builds /\ got.ok THEN @ + 1 ELSE @,
                                   !.op = op, !.X = X, !.ran = Delegate(op),
                                   !.built_on = IF builds /\ gtl.ok THEN X ELSE @]
           proc == IF builds THEN prep.maps + 1 ELSE prep.proc
           tl == IF builds THEN ProcessorOf(gtl.map, hashseed) ELSE transformer_list
       IN  /\ IF builds
              THEN /\ column_mapping' = got.map
                   /\ final_mapping' = IF got.ok THEN parallelize_mapping(got.map) ELSE got
                   /\ group_transformer_list' = gtl
                   /\ spc' = IF gtl.ok THEN "built" ELSE "mapping"
              ELSE UNCHANGED schedVars
           /\ IF builds /\ ~gtl.ok
              THEN /\ prep' = [counted EXCEPT !.ran = "none",
                                  !.last = PrepLast(op, X, "none", 0, FALSE, gtl.err)]
                   /\ UNCHANGED engVars
              ELSE IF Delegate(op) = "none"
              THEN /\ prep' = [counted EXCEPT !.proc = proc,
                                  !.last = PrepLast(op, X, "none", proc, TRUE, "")]
                   /\ transformer_list' = tl
                   /\ UNCHANGED <<column_sharers, configVars, pc, call, results,
                                  finished, result>>
              ELSE /\ prep' = [counted EXCEPT !.proc = proc, !.at = "running"]
                   /\ StartCall(tl, Delegate(op), X)
    /\ UNCHANGED <<smartVars, sliced, merge, fused>>

(* The processor's call has ended: its error is the method's, and a call   *)
(* that returned is followed by the end of the method.                     *)
PrepReturn ==
    /\ prep.at = "running"
    /\ pc = "idle"
    /\ prep' = [prep EXCEPT !.at = "idle",
                   !.last = PrepLast(prep.op, prep.X, prep.ran, prep.proc,
                                     result.ok, result.err)]
    /\ UNCHANGED <<engVars, schedVars, smartVars, sliced, merge, fused>>

PrepInit ==
    /\ SmartIdle
    /\ ExtraIdle
    /\ SchedIdle
    /\ transformer_list = <<>>
    /\ n_jobs = -1
    /\ collapse_index = FALSE
    /\ hashseed = 0
    /\ column_sharers = [s \in StoreIds |-> Blank]
    /\ pc = "idle"
    /\ call = NoCall
    /\ results = <<>>
    /\ finished = <<>>
    /\ result = NoResult

PrepNext ==
    \/ \E op \in Ops, X \in Tables, got \in get_mapping : PrepCall(op, X, got)
    \/ \E i \in 1..MaxGroups : UnitCompletes(i, NoWrites)
    \/ \E i \in 1..MaxGroups : UnitRaises(i)
    \/ Return
    \/ PrepReturn

PrepSpec == PrepInit /\ [][PrepNext]_vars

-----------------------------------------------------------------------------
(* One ColumnSharer merged into another. *)

MergeInit ==
    /\ SmartIdle
    /\ ExtraIdle
    /\ EngIdle
    /\ SchedIdle

MergeNext ==
    \E column_sharer \in SharerContents({NoneValue, OldValue}),
       modified_cs \in SharerContents({NoneValue, OldValue, WrittenValue(1)}) :
       MergeOne(column_sharer, modified_cs)

MergeSpec == MergeInit /\ [][MergeNext]_vars

-----------------------------------------------------------------------------
(* Vocabulary of the scheduler's claims, stated on the mapping itself. *)

Planned == spc = "planned" /\ final_mapping.ok

Plan == final_mapping.map

Groups == Range(column_mapping)

(* A group is homogeneous when its column list is the same at all steps. *)
Homogeneous(e) == \A s \in DOMAIN e.steps : e.steps[s].cols = e.steps[1].cols

HomogeneousGroups == {e \in Groups : Homogeneous(e)}
HeterogeneousGroups == {e \in Groups : ~Homogeneous(e)}

OperatorsOf(e) == {e.steps[s].trans : s \in DOMAIN e.steps}

FusedBlocks == {j \in DOMAIN Plan : Plan[j].key = <<"str", "grouped_pipeline">>}

UnitsOfGroup(g) == {j \in DOMAIN Plan : Plan[j].key = <<"int", g>>}

SuperSteps(j) == Plan[j].trans.steps

ColumnSet(cols) == {cols[i] : i \in DOMAIN cols}

(* C2: a group with the same column list at all of its steps has exactly   *)
(* one unit in the plan, keyed by its group id: its operators in step      *)
(* order as one pipeline on that column list; none of its operators is in  *)
(* the fused block.                                                        *)
C2_HomogeneousGroupIsOneUnit ==
    Planned =>
    \A e \in HomogeneousGroups :
        /\ Cardinality(UnitsOfGroup(e.group)) = 1
        /\ \A j \in UnitsOfGroup(e.group) :
              /\ Plan[j].trans.kind = "Pipeline"
              /\ Len(Plan[j].trans.steps) = Len(e.steps)
              /\ \A s \in DOMAIN e.steps : Plan[j].trans.steps[s] = e.steps[s].trans
              /\ Plan[j].cols = e.steps[1].cols
        /\ \A j \in FusedBlocks : \A k \in DOMAIN SuperSteps(j) :
              \A m \in DOMAIN SuperSteps(j)[k].transformer_list :
                  SuperSteps(j)[k].transformer_list[m].trans \notin OperatorsOf(e)

(* A plan with a fused block and a homogeneous group of two steps. *)
C2_Witness ==
    /\ Planned
    /\ FusedBlocks # {}
    /\ \E e \in HomogeneousGroups : Len(e.steps) = 2

(* C3: when some group is heterogeneous the plan holds exactly one fused   *)
(* block, under the key 'grouped_pipeline'; each of its super-steps holds  *)
(* one entry per heterogeneous group, with that group's operator and       *)
(* column list for the position, and no entry of a homogeneous group,      *)
(* which has its own unit.                                                 *)
C3_FusedBlockHoldsTheHeterogeneousGroups ==
    (Planned /\ HeterogeneousGroups # {}) =>
    /\ Cardinality(FusedBlocks) = 1
    /\ \A j \in FusedBlocks :
          /\ Plan[j].name = <<"str", "grouped_pipeline">>
          /\ \A k \in DOMAIN SuperSteps(j) :
                LET tl == SuperSteps(j)[k].transformer_list
                IN  /\ Len(tl) = Cardinality(HeterogeneousGroups)
                    /\ \A e \in HeterogeneousGroups :
                          Cardinality({m \in DOMAIN tl :
                                          /\ tl[m].trans = e.steps[k].trans
                                          /\ tl[m].cols = e.steps[k].cols
                                          /\ tl[m].name[2] = e.group}) = 1
                    /\ \A e \in HomogeneousGroups : \A m \in DOMAIN tl :
                          tl[m].name[2] # e.group
    /\ \A e \in HomogeneousGroups : UnitsOfGroup(e.group) # {}

(* A plan with two heterogeneous groups fused. *)
C3_Witness ==
    /\ Planned
    /\ Cardinality(HeterogeneousGroups) = 2
    /\ \E j \in FusedBlocks : Len(SuperSteps(j)) = 2

MaxOf(S) == CHOOSE x \in S : \A y \in S : y <= x

(* C4: when some group is heterogeneous, planning returns a plan whose     *)
(* fused block has as many super-steps as the longest heterogeneous group  *)
(* has steps, numbered from 0.                                             *)
C4_SuperStepsCoverTheLongestGroup ==
    (spc = "planned" /\ HeterogeneousGroups # {}) =>
    /\ final_mapping.ok
    /\ \A j \in FusedBlocks :
          /\ Len(SuperSteps(j)) = MaxOf({Len(e.steps) : e \in HeterogeneousGroups})
          /\ \A k \in DOMAIN SuperSteps(j) : SuperSteps(j)[k].name = <<"step", k - 1>>

(* At every step position the column lists of different groups are         *)
(* disjoint.                                                               *)
DisjointPerStep ==
    \A e, f \in Groups : e.group # f.group =>
        \A s \in DOMAIN e.steps \cap DOMAIN f.steps :
            ColumnSet(e.steps[s].cols) \cap ColumnSet(f.steps[s].cols) = {}

(* No column of a homogeneous group occurs in a heterogeneous group, at    *)
(* whatever step position.                                                 *)
IndependentDisjointFromFused ==
    \A e \in HomogeneousGroups, f \in HeterogeneousGroups :
        \A s \in DOMAIN f.steps :
            ColumnSet(e.steps[1].cols) \cap ColumnSet(f.steps[s].cols) = {}

UnitColumns(j) ==
    IF j \in FusedBlocks THEN Plan[j].cols ELSE ColumnSet(Plan[j].cols)

(* The columns the branches of the fused block are given. *)
BranchColumns(j) ==
    UNION {ColumnSet(SuperSteps(j)[k].transformer_list[m].cols) :
             k \in DOMAIN SuperSteps(j),
             m \in 1..Cardinality(HeterogeneousGroups)}

NoSharedColumn ==
    /\ \A i, j \in DOMAIN Plan : i # j => UnitColumns(i) \cap UnitColumns(j) = {}
    /\ \A j \in FusedBlocks : \A k \in DOMAIN SuperSteps(j) :
          LET tl == SuperSteps(j)[k].transformer_list
          IN  \A m, n \in DOMAIN tl :
                 m # n => ColumnSet(tl[m].cols) \cap ColumnSet(tl[n].cols) = {}

(* C5 as claimed: if at every step position the groups' column lists are   *)
(* pairwise disjoint, no two units that run concurrently share a column.   *)
C5_DisjointPerStepGivesDisjointUnits ==
    (Planned /\ DisjointPerStep) => NoSharedColumn

(* C5 as amended: the same, for the mappings in which moreover no column   *)
(* of a homogeneous group occurs in a heterogeneous group at any step      *)
(* position; the independent units are then disjoint from the columns      *)
(* recorded for the fused block and from those its branches are given.     *)
C5_DisjointUnits ==
    (Planned /\ DisjointPerStep /\ IndependentDisjointFromFused) =>
    /\ NoSharedColumn
    /\ \A i \in DOMAIN Plan, j \in FusedBlocks :
          i # j => UnitColumns(i) \cap BranchColumns(j) = {}

(* A plan of an independent unit beside a fused block on disjoint columns. *)
C5_Witness ==
    /\ Planned /\ DisjointPerStep /\ IndependentDisjointFromFused
    /\ FusedBlocks # {}
    /\ \E i \in DOMAIN Plan : i \notin FusedBlocks /\ Plan[i].cols # <<>>
    /\ \A j \in FusedBlocks : Cardinality(Plan[j].cols) = 2

PlanKeys == [j \in DOMAIN Plan |-> Plan[j].key]

(* The keys of the homogeneous groups in the mapping's insertion order. *)
RECURSIVE IndependentKeysInInsertionOrder(_)
IndependentKeysInInsertionOrder(m) ==
    IF Len(m) = 0 THEN <<>>
    ELSE (IF Homogeneous(Head(m)) THEN << <<"int", Head(m).group>> >> ELSE <<>>)
         \o IndependentKeysInInsertionOrder(Tail(m))

FusedBlockLast == \A j \in FusedBlocks : j = Len(Plan)

SameOrderInTransformerList ==
    /\ group_transformer_list.ok
    /\ Len(group_transformer_list.map) = Len(Plan)
    /\ \A j \in DOMAIN Plan : group_transformer_list.map[j].name = Plan[j].name

-----------------------------------------------------------------------------
(* Vocabulary of the engine's claims. *)

TableOps == {"transform", "fit_transform", "inverse_transform"}

UpdatingOps == {"fit", "fit_transform", "inverse_transform"}

(* The call that is running, or the last one. *)
CurrentOp == IF pc = "running" THEN call.op ELSE result.op

HasReturned(op) == pc = "idle" /\ result.op = op /\ result.ok

(* The step in which a call returns its result. *)
Returns(ops) == pc = "running" /\ call.op \in ops /\ pc' = "idle" /\ result'.ok

NonNull(tl) == {i \in 1..Len(tl) : tl[i].trans # None}

(* A column of an output is an input column passed through, or the output  *)
(* of the unit at some position.                                           *)
PassedThrough(col) == col.val[1] = "in"

ProducedBy(col) == IF PassedThrough(col) THEN 0 ELSE col.val[2]

OutputName(col) == col.val[3]

Smallest(cols, c) == c \in Range(cols) /\ \A d \in Range(cols) : ~StrLess(d, c)

-----------------------------------------------------------------------------
-----------------------------------------------------------------------------
(* The operator an entry holds is the one its unit returned: the same      *)
(* object in the same fitted state (the ColumnSharer its steps reference   *)
(* may have been set again by fit_transform).                              *)
SameOperator(a, b) ==
    /\ a.id = b.id
    /\ a.has_steps = b.has_steps
    /\ a.fitted = b.fitted
    /\ Len(a.steps) = Len(b.steps)

(* C9: in fit, fit_transform and inverse_transform no unit is run for an   *)
(* entry whose operator is None, and the entry stays None; when the call   *)
(* returns, every other entry holds the operator its own unit returned;    *)
(* no step changes the number of entries, their names, their columns or    *)
(* their order.                                                            *)
C9_EntriesKeepTheirOwnOperator ==
    [][/\ Len(transformer_list') = Len(transformer_list)
       /\ \A i \in 1..Len(transformer_list) :
             /\ transformer_list'[i].name = transformer_list[i].name
             /\ transformer_list'[i].cols = transformer_list[i].cols
             /\ transformer_list[i].trans = None =>
                   /\ transformer_list'[i].trans = None
                   /\ i \in 1..Len(results') => ~results'[i].done
       /\ Returns(UpdatingOps) =>
             \A i \in NonNull(transformer_list) :
                SameOperator(transformer_list'[i].trans, results[i].trans)
      ]_vars

(* A fit_transform returned on a transformer_list whose first entry is     *)
(* None and whose second entry was fitted by its own unit.                 *)
C9_Witness ==
    /\ HasReturned("fit_transform")
    /\ Len(transformer_list) = 2
    /\ transformer_list[1].trans = None
    /\ ~results[1].done
    /\ results[2].done
    /\ transformer_list[2].trans = [PlainOperator(2) EXCEPT !.fitted = TRUE]

-----------------------------------------------------------------------------
(* An input column is in a column-subset: by its name, or, in a table with *)
(* two-level labels, by its origin or by its "$" derived name.             *)
InSubset(col, cols) ==
    IF IsTupleLabel(col)
    THEN \E i \in 1..Len(cols) :
            \/ cols[i] = col.origin
            \/ Len(cols[i]) > 0 /\ cols[i][1] = Dollar /\ WithoutDollar(cols[i]) = col.new
    ELSE \E i \in 1..Len(cols) : cols[i] = col.new

Covered(col) ==
    \E i \in NonNull(transformer_list) : InSubset(col, transformer_list[i].cols)

Copies(col, X) == {k \in 1..Len(X) : PassedThrough(X[k]) /\ X[k].val = col.val}

(* C8: in the table transform returns, every input column that is in the   *)
(* columns of no entry with an operator (the columns of a None entry       *)
(* included) is there exactly once, with its values and its name; a column *)
(* in the columns of an entry with an operator is not passed through.      *)
C8_OtherColumnsPassThroughOnce ==
    HasReturned("transform") =>
    \A j \in 1..Len(result.X_in) :
       LET col == result.X_in[j]
       IN  IF Covered(col)
           THEN Copies(col, result.X) = {}
           ELSE /\ Cardinality(Copies(col, result.X)) = 1
                /\ \A k \in Copies(col, result.X) : result.X[k].new = col.new

(* transform returned "b" passed through: it is a column of a None entry   *)
(* only, while "ab" is covered by the other entry.                         *)
C8_Witness ==
    /\ HasReturned("transform")
    /\ Len(transformer_list) = 2
    /\ transformer_list[1].trans = None
    /\ transformer_list[1].cols = <<ColB, ColAB>>
    /\ transformer_list[2].trans # None
    /\ transformer_list[2].cols = <<ColAB>>
    /\ \E k \in 1..Len(result.X) : result.X[k].val = <<"in", ColB>>
    /\ \E k \in 1..Len(result.X) : ProducedBy(result.X[k]) = 2

-----------------------------------------------------------------------------
(* The columns of a table come unit by unit in the order of                *)
(* transformer_list, the columns passed through after them.                *)
Rank(col) == IF PassedThrough(col) THEN MaxUnits + 1 ELSE ProducedBy(col)

InUnitOrder(X) == \A j, k \in 1..Len(X) : j < k => Rank(X[j]) <= Rank(X[k])

OutputOf(X, i) == SelectSeq(X, LAMBDA col : ProducedBy(col) = i)

(* C7: the table transform or fit_transform returns has the units' outputs *)
(* in the order of transformer_list, each as its unit returned it,         *)
(* whatever the order the units completed in, and the columns passed       *)
(* through after them; a call repeated on the same table returns the       *)
(* columns in the same order as the call before it.                        *)
C7_ColumnOrderIsDeterministic ==
    [][Returns({"transform", "fit_transform"}) =>
          /\ InUnitOrder(result'.X)
          /\ \A i \in NonNull(transformer_list) : OutputOf(result'.X, i) = results[i].X
          /\ (result.ok /\ result.op = call.op /\ result.X_in = call.X)
                => Labels(result'.X) = Labels(result.X)
      ]_vars

(* transform returned the outputs of two units, the second of which        *)
(* completed first, and two columns passed through.                        *)
C7_Witness ==
    /\ HasReturned("transform")
    /\ finished = <<2, 1>>
    /\ OutputOf(result.X, 1) # <<>>
    /\ OutputOf(result.X, 2) # <<>>
    /\ Len(SelectSeq(result.X, PassedThrough)) >= 2

-----------------------------------------------------------------------------
(* The ColumnSharer after a fit_transform in worker processes. *)

Writers(k) == {i \in NonNull(transformer_list) : results[i].done /\ k \in Range(results[i].writes)}

MergedFitTransform ==
    /\ HasReturned("fit_transform")
    /\ n_jobs > 1 \/ n_jobs = -1
    /\ NonNull(transformer_list) # {}
    /\ \A i \in NonNull(transformer_list) : HasSharer(transformer_list[i].trans)

(* C1: after a fit_transform in worker processes in which every unit came  *)
(* back with its own copy of the ColumnSharer, the original holds, for     *)
(* every key a unit wrote, the value a unit wrote: no copy's stale value   *)
(* of the key replaces it.                                                 *)
C1_WritesSurviveTheMerge ==
    MergedFitTransform =>
    \A k \in Keys :
       Writers(k) # {} =>
          \E i \in Writers(k) : column_sharers[Canonical][k] = WrittenValue(i)

-----------------------------------------------------------------------------
Invalid(tl) == {i \in 1..Len(tl) : Rejected(tl[i].trans)}

-----------------------------------------------------------------------------
AllFitted(tl) == \A i \in NonNull(tl) : tl[i].trans.fitted

(* C12: a fit_transform of a table returns the table that transform        *)
(* returned for it after the operators were fitted on it: the same columns *)
(* in the same order with the same values, also when every operator of     *)
(* transformer_list is None.                                               *)
C12_FitTransformIsFitThenTransform ==
    [][(/\ Returns({"fit_transform"})
        /\ result.ok
        /\ result.op = "transform"
        /\ result.X_in = call.X
        /\ AllFitted(transformer_list))
          => result'.X = result.X
      ]_vars

-----------------------------------------------------------------------------
(* Every column of the table handed to the last call is in the table it    *)
(* returned, once, with its values and its name.                           *)
EveryColumnUnchanged ==
    /\ Len(result.X) = Len(result.X_in)
    /\ \A j \in 1..Len(result.X_in) :
          /\ Cardinality(Copies(result.X_in[j], result.X)) = 1
          /\ \A k \in Copies(result.X_in[j], result.X) : result.X[k].new = result.X_in[j].new

(* C13: for an empty column mapping parallelize_mapping returns an empty   *)
(* plan, the ParallelProcessor is built from it, and its fit and           *)
(* fit_transform return, fit_transform with every input column unchanged.  *)
C13_EmptyMappingIsTheIdentity ==
    (column_mapping = <<>> /\ spc # "mapping") =>
    /\ final_mapping = Returned(<<>>)
    /\ (spc = "built" /\ pc = "idle" /\ result.op \in {"fit", "fit_transform"}) =>
          /\ result.ok
          /\ result.op = "fit_transform" => EveryColumnUnchanged

-----------------------------------------------------------------------------
-----------------------------------------------------------------------------
(* Vocabulary of the SmartTransformer's claims. *)

Override == smart_args.transformer # "None"

(* Nothing was assigned to the wrapper after its construction. *)
OnlyCalls == smart_hist.assigned = "none" /\ smart_hist.last.op # "assign"

(* The step is a call of one of ops on the wrapper. *)
SmartStep(ops) ==
    smart_hist'.calls = smart_hist.calls + 1 /\ smart_hist'.last.op \in ops

(* C15: a SmartTransformer constructed with an override (an instance, a    *)
(* class name or a dict with class_name) never invokes pick_transformer    *)
(* and never replaces the operator bound at construction, whatever fit,    *)
(* transform and inverse_transform calls are made on it.                   *)
C15_OverrideIsNeverReplaced ==
    (Override /\ OnlyCalls) => (smart_hist.picks = 0 /\ smart.transformer.id = 1)

(* C16: constructed without an override and with force_reresolve false, a  *)
(* SmartTransformer whose calls all succeed invokes pick_transformer in    *)
(* its first call and in no later one; should_resolve is false after each  *)
(* call, and the later calls keep the operator bound in the first.         *)
C16_ResolvesOnceInTheFirstCall ==
    [][(/\ ~Override /\ ~smart_args.force_reresolve
        /\ SmartStep(SmartOps)
        /\ smart_hist'.assigned = "none" /\ ~smart_hist'.failed) =>
          /\ ~smart'.should_resolve
          /\ smart_hist'.picks = 1
          /\ IF smart_hist.calls = 0
             THEN smart_hist'.last.picked # 0
             ELSE /\ smart_hist'.last.picked = 0
                  /\ smart'.transformer.id = smart.transformer.id
      ]_vars

(* Three successful calls, one resolution. *)
C16_Witness ==
    /\ ~Override /\ ~smart_args.force_reresolve
    /\ OnlyCalls /\ ~smart_hist.failed
    /\ smart_hist.calls = MaxCalls
    /\ smart_hist.picks = 1
    /\ ~smart.should_resolve

(* C17: while force_reresolve is set, every fit invokes pick_transformer   *)
(* on the data of that call, and a fit that succeeds ran on the operator   *)
(* bound in that call, a new one; an assignment by class name or by dict   *)
(* clears force_reresolve and should_resolve, and once both are clear no   *)
(* call invokes pick_transformer or replaces the operator.                 *)
C17_ForcedFitsResolveEachTime ==
    [][/\ (smart.force_reresolve /\ SmartStep({"fit"})) =>
             /\ smart_hist'.last.picked = smart_hist'.last.X
             /\ smart_hist'.picks = smart_hist.picks + 1
             /\ smart_hist'.last.ok =>
                   /\ smart'.transformer.id = smart_hist'.made
                   /\ smart'.transformer.id # smart.transformer.id
                   /\ smart'.transformer.fitted_on = smart_hist'.last.X
       /\ (SmartStep({"assign"}) /\ smart_hist'.last.ok
             /\ smart_hist'.last.pick \in {"str", "dict"}) =>
             (~smart'.force_reresolve /\ ~smart'.should_resolve)
       /\ (~smart.force_reresolve /\ ~smart.should_resolve /\ SmartStep(SmartOps)) =>
             /\ smart_hist'.last.picked = 0
             /\ smart_hist'.picks = smart_hist.picks
             /\ smart'.transformer.id = smart.transformer.id
             /\ ~smart'.force_reresolve /\ ~smart'.should_resolve
      ]_vars

(* A forced wrapper without an override resolved in a fit, then resolved   *)
(* again in the next fit, which succeeded on other data.                   *)
C17_Witness ==
    /\ ~Override /\ smart_args.force_reresolve /\ smart.force_reresolve
    /\ OnlyCalls
    /\ smart_hist.picks >= 2
    /\ smart_hist.last.op = "fit" /\ smart_hist.last.ok
    /\ smart_hist.last.picked = smart_hist.last.X
    /\ smart.transformer.fitted_on = smart_hist.last.X
    /\ smart_hist.last.before # 0
    /\ smart.transformer.id # smart_hist.last.before

(* C18: a fit in which pick_transformer raises, returns None or returns an *)
(* object that is no operator fails with SmartResolveError, and no         *)
(* operator's fit runs.                                                    *)
C18_SelectionFailuresAreResolutionErrors ==
    (/\ smart_hist.last.op = "fit"
     /\ smart_hist.last.picked # 0
     /\ smart_hist.last.pick \in {"raises", "None", "object"}) =>
       /\ ~smart_hist.last.ok
       /\ smart_hist.last.err = "SmartResolveError"
       /\ ~smart_hist.last.ran

-----------------------------------------------------------------------------
(* Two columns of the table carry the same label. *)
HasDuplicateNames(X) ==
    \E i, j \in 1..Len(X) :
       i # j /\ X[i].origin = X[j].origin /\ X[i].new = X[j].new

(* C19: with collapse_index set, transform and fit_transform never return  *)
(* a table in which two columns have the same name: when dropping the      *)
(* origin level would leave such columns, the call fails.                  *)
C19_CollapseNeverReturnsDuplicateNames ==
    (/\ collapse_index
     /\ pc = "idle"
     /\ result.op \in {"transform", "fit_transform"}
     /\ result.ok) => ~HasDuplicateNames(result.X)

-----------------------------------------------------------------------------
(* Vocabulary of the claim on _slice_cols. *)

IsMarked(c) == Len(c) > 0 /\ c[1] = Dollar

(* The columns a requested name stands for: by derived name when it is     *)
(* marked, by origin when it is not; none when nothing matches.            *)
SelectedBy(X, c) ==
    IF IsMarked(c) THEN SelectSeq(X, LAMBDA col : col.new = Tail(c))
    ELSE SelectSeq(X, LAMBDA col : col.origin = c)

SelectedInOrder(X, cols) ==
    ConcatTables([i \in 1..Len(cols) |-> SelectedBy(X, cols[i])])

(* C20: on a two-level table _slice_cols returns, for the requested names  *)
(* in order, the columns whose derived name is the name without "$" for a  *)
(* marked name and the columns whose origin is the name for an unmarked    *)
(* one; a name that matches nothing at its level is skipped without error. *)
C20_SliceSelectsByMarkedLevel ==
    sliced.applied =>
       /\ sliced.out.ok
       /\ sliced.out.X = IF sliced.drop_level
                         THEN DropLevel(SelectedInOrder(sliced.X, sliced.cols))
                         ELSE SelectedInOrder(sliced.X, sliced.cols)

-----------------------------------------------------------------------------
(* The entries with an operator and no column. *)
EmptyUnits(tl) == {i \in NonNull(tl) : tl[i].cols = <<>>}

(* C21: a unit with an operator and an empty column list is a no-op: fit,  *)
(* transform and fit_transform return, and the table ones return every     *)
(* input column unchanged (the other units being None or empty too).       *)
C21_EmptyUnitIsNoOp ==
    (/\ pc = "idle"
     /\ result.op \in {"fit", "transform", "fit_transform"}
     /\ EmptyUnits(transformer_list) # {}
     /\ NonNull(transformer_list) = EmptyUnits(transformer_list)) =>
       /\ result.ok
       /\ result.op # "fit" => EveryColumnUnchanged

-----------------------------------------------------------------------------
(* Vocabulary of the claims on the ColumnSharer merge. *)

(* Some operator of the list carries a ColumnSharer. *)
Carries(tl) == \E i \in NonNull(tl) : HasSharer(tl[i].trans)

(* The step merges the units' copies into the original, in unit order. *)
MergeIsPerformed ==
    column_sharers'[Canonical] =
       _update_original_column_sharer(
          column_sharers[Canonical],
          CollectResults(transformer_list, results, finished)).cs

(* Every step of every operator of the list references the original. *)
AllReferenceTheOriginal(tl) ==
    \A i \in NonNull(tl) :
       \A k \in 1..Len(tl[i].trans.steps) : tl[i].trans.steps[k] = Canonical

(* C22: a fit_transform that returns has merged the units' copies into the *)
(* original ColumnSharer and handed the original back to the operators     *)
(* exactly when the units ran in worker processes (n_jobs other than 1)    *)
(* and some operator carries a ColumnSharer; with n_jobs = 1 the return    *)
(* changes no ColumnSharer and no operator's reference.                    *)
C22_MergeExactlyUnderMultiWorker ==
    [][Returns({"fit_transform"}) =>
          IF MultiWorker(n_jobs) /\ Carries(transformer_list)
          THEN MergeIsPerformed /\ AllReferenceTheOriginal(transformer_list')
          ELSE /\ column_sharers' = column_sharers
               /\ \A i \in NonNull(transformer_list) :
                     transformer_list'[i].trans.steps = transformer_list[i].trans.steps
      ]_vars

-----------------------------------------------------------------------------
(* The step in which a unit's failure ends the running call. *)
UnitFails ==
    /\ pc = "running" /\ pc' = "idle" /\ ~result'.ok
    /\ \E i \in Range(_iter(transformer_list)) : ~results[i].done

(* The entries of tl2 are the entries of tl1: the same names, columns and  *)
(* operator objects, each operator referencing the ColumnSharer it did.    *)
SameEntries(tl1, tl2) ==
    /\ Len(tl2) = Len(tl1)
    /\ \A i \in 1..Len(tl1) :
          /\ tl2[i].name = tl1[i].name
          /\ tl2[i].cols = tl1[i].cols
          /\ tl2[i].trans.id = tl1[i].trans.id
          /\ tl2[i].trans.steps = tl1[i].trans.steps

(* C23: when a unit fails during fit, fit_transform or inverse_transform,  *)
(* the call fails with the unit's error in that very step, which changes   *)
(* neither transformer_list nor any ColumnSharer; and until then the steps *)
(* of the call have kept the entries of transformer_list, have replaced no *)
(* operator by a worker's copy and have merged no copy into the original   *)
(* ColumnSharer (with n_jobs = 1 only an operator's own write changes it). *)
C23_UnitFailureFailsTheCall ==
    [][/\ (pc = "running" /\ call.op \in FailCalls /\ UnitFails) =>
             /\ \E i \in Range(_iter(transformer_list)) :
                   /\ MayComplete(i)
                   /\ result'.err = (IF ~Slice(i).ok THEN Slice(i).err
                                     ELSE UnitOutcome(i).err)
             /\ transformer_list' = transformer_list
             /\ column_sharers' = column_sharers
       /\ (pc' = "running" /\ call'.op \in FailCalls) =>
             /\ SameEntries(transformer_list, transformer_list')
             /\ MultiWorker(n_jobs) =>
                   (transformer_list' = transformer_list /\ column_sharers' = column_sharers)
             /\ ~MultiWorker(n_jobs) =>
                   \/ column_sharers' = column_sharers
                   \/ \E i \in 1..Len(transformer_list), w \in WriteChoices :
                         column_sharers' =
                            [column_sharers EXCEPT
                               ![Canonical] = ApplyWrites(column_sharers[Canonical], w, i)]
      ]_vars

(* A unit completed and wrote to its ColumnSharer, then the next unit      *)
(* failed and so did the call.                                             *)
C23_Witness ==
    /\ pc = "idle" /\ ~result.ok
    /\ result.op \in FailCalls
    /\ result.err \in {"AttributeError", "IndexError"}
    /\ \E i \in 1..Len(results) : results[i].done /\ results[i].writes # NoWrites
    /\ \E i \in Range(_iter(transformer_list)) : ~results[i].done

-----------------------------------------------------------------------------
-----------------------------------------------------------------------------
(* C30: when a fit_transform that merged the ColumnSharers returns, every  *)
(* step of every operator in transformer_list references one ColumnSharer, *)
(* and it is the object the operators referenced before the call.          *)
MergeWasPerformed ==
    /\ Returns({"fit_transform"})
    /\ (n_jobs > 1 \/ n_jobs = -1)
    /\ Carries(transformer_list)

C30_EveryStepReferencesTheOriginal ==
    [][MergeWasPerformed =>
          LET column_sharer == _get_original_column_sharer(transformer_list)
          IN  /\ column_sharer # NoCS
              /\ \A i \in NonNull(transformer_list') :
                    \A k \in 1..Len(transformer_list'[i].trans.steps) :
                       transformer_list'[i].trans.steps[k] = column_sharer]_vars

(* A merged fit_transform over two pipelines of two steps has returned,    *)
(* and the original holds what a unit wrote to its copy.                   *)
C30_Witness ==
    /\ pc = "idle"
    /\ result.op = "fit_transform"
    /\ result.ok
    /\ n_jobs \in {2, -1}
    /\ Cardinality(NonNull(transformer_list)) = 2
    /\ \A i \in NonNull(transformer_list) :
          /\ Len(transformer_list[i].trans.steps) = 2
          /\ \A k \in 1..2 : transformer_list[i].trans.steps[k] = Canonical
    /\ \E k \in Keys : column_sharers[Canonical][k] \notin {NoneValue, OldValue}

-----------------------------------------------------------------------------
(* C27: a transform or inverse_transform that follows a successful fit of  *)
(* a SmartTransformer, force_reresolve set or not, does not invoke         *)
(* pick_transformer and leaves the operator bound and fitted by that fit   *)
(* in place.                                                               *)
C27_FittedOperatorIsKeptUntilTheNextFit ==
    [][(/\ smart_hist.last.op = "fit" /\ smart_hist.last.ok
        /\ SmartStep({"transform", "inverse_transform"})) =>
          /\ smart_hist'.last.picked = 0
          /\ smart_hist'.picks = smart_hist.picks
          /\ smart'.transformer.id = smart.transformer.id
          /\ smart'.transformer.fitted_on = smart.transformer.fitted_on]_vars

(* C28: a call in which the resolution fails (pick_transformer raises,     *)
(* returns None, or returns an object the setter rejects) leaves           *)
(* should_resolve true and the operator bound before the call bound.       *)
C28_FailedResolveLeavesTheWrapper ==
    (/\ smart_hist.last.op \in SmartOps
     /\ smart_hist.last.picked # 0
     /\ ~smart_hist.last.ok
     /\ ~smart_hist.last.ran
     /\ \/ smart_hist.last.pick \in {"raises", "None"}
        \/ smart_hist.last.pick = "object" /\ smart_hist.last.err = "ValueError") =>
       /\ smart.should_resolve
       /\ smart.transformer.id = smart_hist.last.before

-----------------------------------------------------------------------------
(* C25: in a fit, transform or fit_transform of the fused block the        *)
(* super-steps start in ascending order from the first, none skipped; a    *)
(* super-step starts only when every branch of the one before it has       *)
(* completed and that step has returned, and it is called with the table   *)
(* that step returned.                                                     *)
SuperStepStarts == fused'.k # fused.k /\ fused'.at = "running"

-----------------------------------------------------------------------------
(* What the processor's method of the last call handed back: fit returns   *)
(* the processor (line 305), the other methods a table.                    *)
HandedBack(r) == IF r.op = "fit" THEN ReturnedSelf ELSE ReturnedTable(r.X)

(* C24: a method of PreparerStep that returns has run the method of the    *)
(* same name of its ParallelProcessor and hands back what that method      *)
(* returned: fit_transform has fitted and transformed, inverse_transform   *)
(* has run the processor's inverse_transform.                              *)
C24_MethodsRunTheirNamesake ==
    (prep.at = "idle" /\ prep.last.op \in Ops /\ prep.last.ok) =>
       /\ prep.last.ran = prep.last.op
       /\ result.op = prep.last.op
       /\ prep.last.returned = HandedBack(result)

(* C29, as stated: over any sequence of calls get_mapping and              *)
(* parallelize_mapping are invoked at most once.                           *)
C29_PlannedAtMostOnce == prep.maps <= 1 /\ prep.plans <= 1

(* The step is a call of a method of the PreparerStep. *)
PrepStep == prep'.calls = prep.calls + 1

(* C29, amended: a call that finds no processor invokes get_mapping; once  *)
(* a call has built the processor, no later call invokes get_mapping or    *)
(* parallelize_mapping, and every later call runs on that processor, also  *)
(* with another table.  A call whose planning fails leaves no processor.   *)
C29_BuiltProcessorIsReused ==
    [][PrepStep =>
          IF prep.proc # 0
          THEN /\ prep'.proc = prep.proc
               /\ prep'.maps = prep.maps
               /\ prep'.plans = prep.plans
               /\ transformer_list' = transformer_list
               /\ final_mapping' = final_mapping
          ELSE /\ prep'.maps = prep.maps + 1
               /\ prep'.proc # 0 <=> group_transformer_list'.ok
               /\ prep'.proc # 0 => prep'.plans = prep.plans + 1]_vars

(* The processor was built once, from one table, and a later transform on  *)
(* another table returned.                                                 *)
C29_Witness ==
    /\ prep.at = "idle"
    /\ prep.calls = MaxCalls
    /\ prep.maps = 1 /\ prep.plans = 1 /\ prep.proc = 1
    /\ prep.last.ok /\ prep.last.ran = "transform"
    /\ prep.last.X # prep.built_on
    /\ Len(transformer_list) = 2

====
